---- MODULE Spec2Model ----
(***************************************************************************)
(* Recitation scoring backend (polly-memo-fastapi).                        *)
(*                                                                         *)
(* The model follows app/services/analysis_service.py: one /analyze        *)
(* request is taken through the stages of analyze_recitation (ASR call,    *)
(* text preprocessing, word alignment, score calculation).                 *)
(*                                                                         *)
(* Representation.                                                         *)
(*  - A character is a one-character string; a word or a text is a         *)
(*    sequence of characters, so "" is << >>.                              *)
(*  - A similarity (a Python float in [0,1]) is an integer count of        *)
(*    1/SimScale units; the DP table holds the same units.                 *)
(*  - A time stamp is an integer count of 1/TicksPerSecond seconds.        *)
(*  - Every other float is an exact rational <<n, d>> with d > 0 in lowest *)
(*    terms; round(x, 2) becomes an integer count of hundredths.           *)
(***************************************************************************)
EXTENDS Integers, Sequences, FiniteSets, TLC

VARIABLES
    family,                  \* which bounded input family this run draws from
    pc,                      \* stage of analyze_recitation the request is at
    original_text,           \* request.original_text
    asr_result,              \* ASRResponse: [text, words]
    original_preprocessed,   \* PreprocessedText of the reference text
    recognized_preprocessed, \* PreprocessedText of the transcript
    word_alignments,         \* List[WordAlignment]
    analysis,                \* RecitationAnalysis, or NoAnalysis
    response,                \* what the request ended with
    requests,                \* the /analyze requests in flight, by request id
    temp_dir,                \* the files of settings.temp_dir, shared by all
    auth,                    \* one call of require_api_key
    backtrack,               \* the backtracking of _align_words, step by step
    extract                  \* one call of extract_lessons_from_module

\* the variables of one run of analyze_recitation, stage by stage
pipeline_vars == <<family, pc, original_text, asr_result, original_preprocessed,
                   recognized_preprocessed, word_alignments, analysis, response>>

vars == <<family, pc, original_text, asr_result, original_preprocessed,
          recognized_preprocessed, word_alignments, analysis, response,
          requests, temp_dir, auth, backtrack, extract>>

-----------------------------------------------------------------------------
(* Bounds of the model *)

\* longest reference text, in words
MaxExpected == 3
\* longest ASR word list of the general and scenario families
MaxActual == 3
\* longest ASR word list of the timing family
MaxTimedWords == 2
\* longest ASR word list of the pauses family
MaxPauseWords == 8

-----------------------------------------------------------------------------
(* Units *)

\* 1/SimScale is the unit of similarities and DP scores: every ratio 2*M/T
\* with T <= 6 and the 0.5 gap penalty are whole numbers of it
SimScale == 3 * 4 * 5
\* time stamps are in tenths of a second
TicksPerSecond == 2 * 5

-----------------------------------------------------------------------------
(* Program constants *)

\* settings.min_word_similarity = 0.65, in percent
MinWordSimilarityPct == 65
\* settings.pronunciation_accuracy_weight = 0.2, in tenths
PronunciationWeightTenths == 2
\* settings.fluency_weight = 0.3, in tenths
FluencyWeightTenths == 3
\* settings.accuracy_weight = 0.5, in tenths
AccuracyWeightTenths == 5
\* ideal_wpm_min, ideal_wpm_max = 120.0, 180.0
IdealWpmMin == 120
IdealWpmMax == 180

-----------------------------------------------------------------------------
(* Exact rationals *)

Abs(x) == IF x < 0 THEN -x ELSE x

Min2(a, b) == IF a <= b THEN a ELSE b

Max2(a, b) == IF a >= b THEN a ELSE b

RECURSIVE GCD(_, _)
GCD(a, b) == IF b = 0 THEN a ELSE GCD(b, a % b)

RNorm(n, d) ==
    IF n = 0 THEN <<0, 1>>
    ELSE LET g == GCD(Abs(n), d) IN <<n \div g, d \div g>>

RInt(n) == <<n, 1>>

RAdd(x, y) ==
    LET g == GCD(x[2], y[2])
        l == (x[2] \div g) * y[2]
    IN  RNorm(x[1] * (l \div x[2]) + y[1] * (l \div y[2]), l)

RNeg(x) == <<-x[1], x[2]>>

RSub(x, y) == RAdd(x, RNeg(y))

RMul(x, y) ==
    LET g1 == IF x[1] = 0 THEN 1 ELSE GCD(Abs(x[1]), y[2])
        g2 == IF y[1] = 0 THEN 1 ELSE GCD(Abs(y[1]), x[2])
    IN  RNorm((x[1] \div g1) * (y[1] \div g2), (x[2] \div g2) * (y[2] \div g1))

\* x / y for y > 0
RDiv(x, y) == RMul(x, <<y[2], y[1]>>)

RAbs(x) == <<Abs(x[1]), x[2]>>

RLt(x, y) == x[1] * y[2] < y[1] * x[2]

RLe(x, y) == x[1] * y[2] <= y[1] * x[2]

RMin(x, y) == IF RLe(x, y) THEN x ELSE y

RMax(x, y) == IF RLe(y, x) THEN x ELSE y

\* round(x, 2) as a count of hundredths. At an exact decimal tie the result
\* of the float computation depends on its binary rounding error, which lies
\* on either side: both neighbours are admitted.
Round2(x) ==
    LET whole == x[1] \div x[2]
        rem   == x[1] % x[2]
        h     == (rem * 100) \div x[2]
        r2    == (rem * 100) % x[2]
        base  == whole * 100 + h
    IN  IF 2 * r2 > x[2] THEN {base + 1}
        ELSE IF 2 * r2 < x[2] THEN {base}
        ELSE {base, base + 1}

-----------------------------------------------------------------------------
(* Characters *)

Space == " "

\* characters the pattern [^\w\s\u4e00-\u9fff] removes
PunctChars == {"?", "'", ".", ","}

\* stand-ins for characters of the range \u4e00-\u9fff
ChineseChars == {"zh1", "zh2"}

\* str.lower() on one character
Lower(c) ==
    CASE c = "A" -> "a"
      [] c = "B" -> "b"
      [] c = "C" -> "c"
      [] c = "X" -> "x"
      [] OTHER -> c

LowerWord(w) == [k \in 1..Len(w) |-> Lower(w[k])]

\* re.sub(r'[^\w\s\u4e00-\u9fff]', '', word)
StripPunct(w) == SelectSeq(w, LAMBDA c : c \notin PunctChars)

RECURSIVE SumSeq(_)
SumSeq(s) == IF s = << >> THEN 0 ELSE Head(s) + SumSeq(Tail(s))

Reverse(s) == [k \in 1..Len(s) |-> s[Len(s) + 1 - k]]

-----------------------------------------------------------------------------
(* Tokenizer: _is_chinese_text and _preprocess_text *)

CountIn(text, S) == Cardinality({k \in 1..Len(text) : text[k] \in S})

\* chinese_count > total_chars * 0.5 if total_chars > 0 else False
IsChineseText(text) ==
    LET chinese_count == CountIn(text, ChineseChars)
        total_chars   == Cardinality({k \in 1..Len(text) : text[k] # Space})
    IN  IF total_chars > 0 THEN 2 * chinese_count > total_chars ELSE FALSE

\* str.split(): the maximal runs of non-whitespace characters
RECURSIVE SplitFrom(_, _, _, _)
SplitFrom(text, k, cur, acc) ==
    IF k > Len(text)
    THEN IF cur = << >> THEN acc ELSE Append(acc, cur)
    ELSE IF text[k] = Space
         THEN SplitFrom(text, k + 1, << >>,
                        IF cur = << >> THEN acc ELSE Append(acc, cur))
         ELSE SplitFrom(text, k + 1, Append(cur, text[k]), acc)

SplitWords(text) == SplitFrom(text, 1, << >>, << >>)

\* [char for char in text if char.strip()]
SplitChars(text) ==
    LET kept == SelectSeq(text, LAMBDA c : c # Space)
    IN  [k \in 1..Len(kept) |-> <<kept[k]>>]

OriginalWords(text) ==
    IF IsChineseText(text) THEN SplitChars(text) ELSE SplitWords(text)

\* punctuation removed, then lower-cased
ProcessWord(original_word) == LowerWord(StripPunct(original_word))

EmptyMapping == [w \in {} |-> << >>]

\* dict assignment m[k] = v
MapPut(m, k, v) == [x \in (DOMAIN m) \cup {k} |-> IF x = k THEN v ELSE m[x]]

\* dict.get(k, default)
MapGet(m, k, default) == IF k \in DOMAIN m THEN m[k] ELSE default

\* a loop that keeps the empty processed words
RECURSIVE PreprocessFromKeepsEmpty(_, _, _, _)
PreprocessFromKeepsEmpty(original_words, k, processed_words, original_mapping) ==
    IF k > Len(original_words)
    THEN [processed_words |-> processed_words,
          original_mapping |-> original_mapping]
    ELSE LET processed_word == ProcessWord(original_words[k])
         IN  PreprocessFromKeepsEmpty(original_words, k + 1,
                                      Append(processed_words, processed_word),
                                      MapPut(original_mapping, processed_word,
                                             original_words[k]))

RECURSIVE PreprocessFrom(_, _, _, _)
PreprocessFrom(original_words, k, processed_words, original_mapping) ==
    IF k > Len(original_words)
    THEN [processed_words |-> processed_words,
          original_mapping |-> original_mapping]
    ELSE LET processed_word == ProcessWord(original_words[k])
         IN  IF processed_word # << >>
             THEN PreprocessFrom(original_words, k + 1,
                                 Append(processed_words, processed_word),
                                 MapPut(original_mapping, processed_word,
                                        original_words[k]))
             ELSE PreprocessFrom(original_words, k + 1,
                                 processed_words, original_mapping)

PreprocessText(text) ==
    PreprocessFrom(OriginalWords(text), 1, << >>, EmptyMapping)

-----------------------------------------------------------------------------
(* SimilarityMetric: _calculate_word_similarity, difflib.SequenceMatcher *)

\* blocks a[i+1..i+k] = b[j+1..j+k] inside a[alo+1..ahi], b[blo+1..bhi]
MatchingBlocksIn(a, b, alo, ahi, blo, bhi) ==
    {blk \in (alo..(ahi - 1)) \X (blo..(bhi - 1)) \X (1..(ahi - alo)) :
        /\ blk[1] + blk[3] <= ahi
        /\ blk[2] + blk[3] <= bhi
        /\ \A t \in 1..blk[3] : a[blk[1] + t] = b[blk[2] + t]}

\* find_longest_match: the longest block; of those the earliest in a; of
\* those the earliest in b
FindLongestMatch(a, b, alo, ahi, blo, bhi) ==
    LET blocks == MatchingBlocksIn(a, b, alo, ahi, blo, bhi)
    IN  IF blocks = {} THEN <<alo, blo, 0>>
        ELSE CHOOSE m \in blocks : \A o \in blocks :
                \/ m[3] > o[3]
                \/ m[3] = o[3] /\ m[1] < o[1]
                \/ m[3] = o[3] /\ m[1] = o[1] /\ m[2] <= o[2]

\* total size of get_matching_blocks()
RECURSIVE MatchedChars(_, _, _, _, _, _)
MatchedChars(a, b, alo, ahi, blo, bhi) ==
    LET m == FindLongestMatch(a, b, alo, ahi, blo, bhi)
    IN  IF m[3] = 0 THEN 0
        ELSE m[3] + MatchedChars(a, b, alo, m[1], blo, m[2])
                  + MatchedChars(a, b, m[1] + m[3], ahi, m[2] + m[3], bhi)

\* SequenceMatcher.ratio(): 2.0 * matches / length, 1.0 for two empty strings
SequenceRatio(a, b) ==
    LET length == Len(a) + Len(b)
    IN  IF length = 0 THEN SimScale
        ELSE (2 * MatchedChars(a, b, 0, Len(a), 0, Len(b)) * SimScale) \div length

CalculateWordSimilarity(word1, word2) ==
    IF word1 = word2 THEN SimScale
    ELSE SequenceRatio(LowerWord(word1), LowerWord(word2))

-----------------------------------------------------------------------------
(* AlignmentEngine: _align_words *)

\* a default of one tick
TimestampsOfOneTick == [start |-> 1, end |-> 1]

\* {'start': 0.0, 'end': 0.0}
NoTimestamps == [start |-> 0, end |-> 0]

\* a dictionary that keeps the first entry of a key
RECURSIVE WordTimestampsFromFirst(_, _, _)
WordTimestampsFromFirst(asr_words, k, word_timestamps) ==
    IF k > Len(asr_words) THEN word_timestamps
    ELSE LET clean_word == StripPunct(LowerWord(asr_words[k].word))
         IN  WordTimestampsFromFirst(asr_words, k + 1,
                 IF clean_word \in DOMAIN word_timestamps THEN word_timestamps
                 ELSE MapPut(word_timestamps, clean_word,
                             [start |-> asr_words[k].start, end |-> asr_words[k].end]))

\* the timestamp dictionary, keyed by the cleaned word: a later ASR word
\* with the same key replaces the earlier entry
RECURSIVE WordTimestampsFrom(_, _, _)
WordTimestampsFrom(asr_words, k, word_timestamps) ==
    IF k > Len(asr_words) THEN word_timestamps
    ELSE LET clean_word == StripPunct(LowerWord(asr_words[k].word))
         IN  WordTimestampsFrom(asr_words, k + 1,
                 MapPut(word_timestamps, clean_word,
                        [start |-> asr_words[k].start, end |-> asr_words[k].end]))

WordTimestamps(asr_words) == WordTimestampsFrom(asr_words, 1, EmptyMapping)

\* a penalty of a whole point
GapPenaltyWhole == SimScale

\* the 0.5 penalty of a delete or insert step
GapPenalty == SimScale \div 2

Max3(a, b, c) == Max2(a, Max2(b, c))

\* dp[i][j] of a table held as rows 1..N+1 of cells 1..M+1
DpAt(dp, i, j) == dp[i + 1][j + 1]

\* row i of the table from row i-1, cell by cell from j = 1
RECURSIVE DpRowFrom(_, _, _, _, _)
DpRowFrom(expected_words, actual_words, prev_row, i, row) ==
    IF Len(row) > Len(actual_words) THEN row
    ELSE LET j            == Len(row)
             similarity   == CalculateWordSimilarity(expected_words[i], actual_words[j])
             match_score  == prev_row[j] + similarity
             delete_score == prev_row[j + 1] - GapPenalty
             insert_score == row[j] - GapPenalty
         IN  DpRowFrom(expected_words, actual_words, prev_row, i,
                       Append(row, Max3(match_score, delete_score, insert_score)))

RECURSIVE DpRowsFrom(_, _, _)
DpRowsFrom(expected_words, actual_words, dp) ==
    IF Len(dp) > Len(expected_words) THEN dp
    ELSE DpRowsFrom(expected_words, actual_words,
                    Append(dp, DpRowFrom(expected_words, actual_words,
                                         dp[Len(dp)], Len(dp), <<0>>)))

\* dp = [[0.0] * (M + 1) for _ in range(N + 1)], then filled row by row
DpTable(expected_words, actual_words) ==
    DpRowsFrom(expected_words, actual_words,
               <<[j \in 1..(Len(actual_words) + 1) |-> 0]>>)

\* abs(x - y) < 1e-6
WithinTolerance(x, y) == Abs(x - y) * 1000000 < SimScale

\* similarity >= settings.min_word_similarity
\* a threshold of 0.5
IsMatchAboveHalf(similarity) == similarity * 2 >= SimScale

IsMatch(similarity) == similarity * 100 >= MinWordSimilarityPct * SimScale

MatchRecord(expected_word, actual_word, similarity, timestamps) ==
    [expected_word |-> expected_word, actual_word |-> actual_word,
     similarity |-> similarity,
     start_time |-> timestamps.start, end_time |-> timestamps.end,
     is_match |-> IsMatch(similarity)]

DeleteRecord(expected_word) ==
    [expected_word |-> expected_word, actual_word |-> << >>,
     similarity |-> 0, start_time |-> 0, end_time |-> 0, is_match |-> FALSE]

InsertRecord(actual_word, timestamps) ==
    [expected_word |-> << >>, actual_word |-> actual_word,
     similarity |-> 0,
     start_time |-> timestamps.start, end_time |-> timestamps.end,
     is_match |-> FALSE]

\* a backtracking that never pairs two words of similarity 0
BacktrackStepNoSubstitution(expected_words, actual_words, dp, i, j) ==
    LET similarity == CalculateWordSimilarity(expected_words[i], actual_words[j])
    IN  IF similarity > 0
           /\ WithinTolerance(DpAt(dp, i, j), DpAt(dp, i - 1, j - 1) + similarity)
        THEN "match"
        ELSE IF WithinTolerance(DpAt(dp, i, j), DpAt(dp, i - 1, j) - GapPenalty)
             THEN "delete"
             ELSE "insert"

\* a backtracking that tries the delete branch before the match branch
BacktrackStepDeleteFirst(expected_words, actual_words, dp, i, j) ==
    LET similarity == CalculateWordSimilarity(expected_words[i], actual_words[j])
    IN  IF WithinTolerance(DpAt(dp, i, j), DpAt(dp, i - 1, j) - GapPenalty)
        THEN "delete"
        ELSE IF WithinTolerance(DpAt(dp, i, j), DpAt(dp, i - 1, j - 1) + similarity)
             THEN "match"
             ELSE "insert"

\* the branch the backtracking takes at cell (i, j), i > 0 and j > 0
BacktrackStep(expected_words, actual_words, dp, i, j) ==
    LET similarity == CalculateWordSimilarity(expected_words[i], actual_words[j])
    IN  IF WithinTolerance(DpAt(dp, i, j), DpAt(dp, i - 1, j - 1) + similarity)
        THEN "match"
        ELSE IF WithinTolerance(DpAt(dp, i, j), DpAt(dp, i - 1, j) - GapPenalty)
             THEN "delete"
             ELSE "insert"

\* while i > 0 and j > 0: the loop's exit state [i, j, alignments]
RECURSIVE BacktrackMain(_, _, _, _, _, _, _)
BacktrackMain(expected_words, actual_words, word_timestamps, dp, i, j, alignments) ==
    IF i > 0 /\ j > 0
    THEN LET expected_word == expected_words[i]
             actual_word   == actual_words[j]
             similarity    == CalculateWordSimilarity(expected_word, actual_word)
             timestamps    == MapGet(word_timestamps, actual_word, NoTimestamps)
             step          == BacktrackStep(expected_words, actual_words, dp, i, j)
         IN  IF step = "match"
             THEN BacktrackMain(expected_words, actual_words, word_timestamps, dp,
                      i - 1, j - 1,
                      Append(alignments,
                             MatchRecord(expected_word, actual_word, similarity, timestamps)))
             ELSE IF step = "delete"
             THEN BacktrackMain(expected_words, actual_words, word_timestamps, dp,
                      i - 1, j,
                      Append(alignments, DeleteRecord(expected_word)))
             ELSE BacktrackMain(expected_words, actual_words, word_timestamps, dp,
                      i, j - 1,
                      Append(alignments, InsertRecord(actual_word, timestamps)))
    ELSE [i |-> i, j |-> j, alignments |-> alignments]

\* a flush that drops the rest of the expected words
FlushExpectedMissing(expected_words, i, alignments) == alignments

\* while i > 0: the rest of the expected words, as deletions
RECURSIVE FlushExpected(_, _, _)
FlushExpected(expected_words, i, alignments) ==
    IF i > 0
    THEN FlushExpected(expected_words, i - 1,
                       Append(alignments, DeleteRecord(expected_words[i])))
    ELSE alignments

\* a flush that emits nothing
FlushActualMissing(actual_words, word_timestamps, j, alignments) == alignments

\* while j > 0: the rest of the actual words, as insertions
RECURSIVE FlushActual(_, _, _, _)
FlushActual(actual_words, word_timestamps, j, alignments) ==
    IF j > 0
    THEN FlushActual(actual_words, word_timestamps, j - 1,
             Append(alignments,
                    InsertRecord(actual_words[j],
                                 MapGet(word_timestamps, actual_words[j], NoTimestamps))))
    ELSE alignments

\* a result left in backtracking order
ReversedMissing(alignments) == alignments

\* list(reversed(alignments))
Reversed(alignments) == Reverse(alignments)

AlignWords(expected_words, actual_words, asr_words) ==
    LET word_timestamps == WordTimestamps(asr_words)
        dp   == DpTable(expected_words, actual_words)
        main == BacktrackMain(expected_words, actual_words, word_timestamps, dp,
                              Len(expected_words), Len(actual_words), << >>)
    IN  Reversed(FlushActual(actual_words, word_timestamps, main.j,
                             FlushExpected(expected_words, main.i, main.alignments)))

-----------------------------------------------------------------------------
(* ScoreAggregator: _calculate_pronunciation_score, _calculate_pause_score,
   _calculate_fluency_score, _calculate_analysis_scores *)

\* n / d for d # 0
RFrac(n, d) == IF d < 0 THEN RNorm(-n, -d) ELSE RNorm(n, d)

\* a test that takes the insertions for pairs
IsPairOrInsertion(alignment) == alignment.actual_word # << >>

IsPair(alignment) ==
    alignment.expected_word # << >> /\ alignment.actual_word # << >>

\* a test that takes the insertions for deletions
IsDeletionByActual(alignment) ==
    alignment.expected_word = << >> /\ alignment.actual_word # << >>

IsDeletion(alignment) ==
    alignment.expected_word # << >> /\ alignment.actual_word = << >>

IsInsertion(alignment) ==
    alignment.expected_word = << >> /\ alignment.actual_word # << >>

\* a mean taken over every alignment record
CalculatePronunciationScoreOverAll(alignments) ==
    IF alignments = << >> THEN RInt(0)
    ELSE LET total == SumSeq([k \in 1..Len(alignments) |-> alignments[k].similarity])
         IN  RMin(RMul(RFrac(total, Len(alignments) * SimScale), RInt(10)), RInt(10))

CalculatePronunciationScore(alignments) ==
    IF alignments = << >> THEN RInt(0)
    ELSE LET matched_alignments == SelectSeq(alignments, IsPair)
         IN  IF matched_alignments = << >> THEN RInt(0)
             ELSE LET total == SumSeq([k \in 1..Len(matched_alignments) |->
                                          matched_alignments[k].similarity])
                      avg_similarity == RFrac(total, Len(matched_alignments) * SimScale)
                  IN  RMin(RMul(avg_similarity, RInt(10)), RInt(10))

\* a pause score that tries the band of 8 before the band of 10
CalculatePauseScoreLooseFirst(words) ==
    IF Len(words) < 2 THEN RInt(8)
    ELSE LET intervals == [k \in 1..(Len(words) - 1) |->
                              words[k + 1].start - words[k].end]
             avg_interval == RFrac(SumSeq(intervals), Len(intervals) * TicksPerSecond)
             long_pauses == Cardinality({k \in 1..Len(intervals) :
                                            intervals[k] > TicksPerSecond})
         IN  IF RLt(avg_interval, RInt(1)) /\ long_pauses <= 2 THEN RInt(8)
             ELSE IF RLt(avg_interval, <<1, 2>>) /\ long_pauses = 0 THEN RInt(10)
             ELSE IF RLt(avg_interval, RInt(2)) /\ long_pauses <= 5 THEN RInt(6)
             ELSE RMax(RSub(RInt(4), RMul(RInt(long_pauses), <<1, 2>>)), RInt(1))

CalculatePauseScore(words) ==
    IF Len(words) < 2 THEN RInt(8)
    ELSE LET intervals == [k \in 1..(Len(words) - 1) |->
                              words[k + 1].start - words[k].end]
             avg_interval == RFrac(SumSeq(intervals), Len(intervals) * TicksPerSecond)
             long_pauses == Cardinality({k \in 1..Len(intervals) :
                                            intervals[k] > TicksPerSecond})
         IN  IF RLt(avg_interval, <<1, 2>>) /\ long_pauses = 0 THEN RInt(10)
             ELSE IF RLt(avg_interval, RInt(1)) /\ long_pauses <= 2 THEN RInt(8)
             ELSE IF RLt(avg_interval, RInt(2)) /\ long_pauses <= 5 THEN RInt(6)
             ELSE RMax(RSub(RInt(4), RMul(RInt(long_pauses), <<1, 2>>)), RInt(1))

Returned(value) == [raised |-> "", value |-> value]

Raised(exception) == [raised |-> exception, value |-> RInt(0)]

\* a speed score without its floor of 1
SpeedScoreUnclamped(words_per_minute) ==
    IF RLe(RInt(IdealWpmMin), words_per_minute)
       /\ RLe(words_per_minute, RInt(IdealWpmMax))
    THEN RInt(10)
    ELSE LET deviation == RMin(RAbs(RSub(words_per_minute, RInt(IdealWpmMin))),
                               RAbs(RSub(words_per_minute, RInt(IdealWpmMax))))
         IN  RSub(RInt(10), RDiv(deviation, RInt(20)))

\* a speed score whose deviation is the distance to the farther bound
SpeedScoreFarBound(words_per_minute) ==
    IF RLe(RInt(IdealWpmMin), words_per_minute)
       /\ RLe(words_per_minute, RInt(IdealWpmMax))
    THEN RInt(10)
    ELSE LET deviation == RMax(RAbs(RSub(words_per_minute, RInt(IdealWpmMin))),
                               RAbs(RSub(words_per_minute, RInt(IdealWpmMax))))
         IN  RMax(RSub(RInt(10), RDiv(deviation, RInt(20))), RInt(1))

\* the speed score of a words-per-minute value
SpeedScore(words_per_minute) ==
    IF RLe(RInt(IdealWpmMin), words_per_minute)
       /\ RLe(words_per_minute, RInt(IdealWpmMax))
    THEN RInt(10)
    ELSE LET deviation == RMin(RAbs(RSub(words_per_minute, RInt(IdealWpmMin))),
                               RAbs(RSub(words_per_minute, RInt(IdealWpmMax))))
         IN  RMax(RSub(RInt(10), RDiv(deviation, RInt(20))), RInt(1))

\* a default of 0
NeutralFluencyZero == RInt(0)

\* the score of a transcript without words
NeutralFluency == RInt(5)

\* the division by total_duration raises ZeroDivisionError when the last
\* word ends where the first one starts
CalculateFluencyScore(asr) ==
    IF asr.words = << >> THEN Returned(NeutralFluency)
    ELSE LET total_duration == asr.words[Len(asr.words)].end - asr.words[1].start
         IN  IF total_duration = 0 THEN Raised("ZeroDivisionError")
             ELSE LET words_per_minute ==
                          RFrac(Len(asr.words) * TicksPerSecond * 60, total_duration)
                      speed_score == SpeedScore(words_per_minute)
                      pause_score == CalculatePauseScore(asr.words)
                      fluency_score == RAdd(RMul(speed_score, <<7, 10>>),
                                            RMul(pause_score, <<3, 10>>))
                  IN  Returned(RMin(fluency_score, RInt(10)))

\* correct_words / total_words * 100 if total_words > 0 else 0
WordAccuracy(correct_words, total_words) ==
    IF total_words > 0 THEN RFrac(correct_words * 100, total_words) ELSE RInt(0)

CorrectWords(alignments) ==
    Cardinality({k \in 1..Len(alignments) : alignments[k].is_match})

\* the entry of word_details a pair or a deletion contributes
WordScoreOf(expected_pre, recognized_pre, alignment) ==
    LET original_expected ==
            MapGet(expected_pre.original_mapping, alignment.expected_word,
                   alignment.expected_word)
        original_actual ==
            MapGet(recognized_pre.original_mapping, alignment.actual_word,
                   alignment.actual_word)
    IN  IF IsPair(alignment)
        THEN [word |-> original_expected, expected |-> original_expected,
              actual |-> original_actual,
              score |-> RFrac(alignment.similarity * 100, SimScale),
              start_time |-> alignment.start_time,
              end_time |-> alignment.end_time,
              is_correct |-> alignment.is_match]
        ELSE [word |-> original_expected, expected |-> original_expected,
              actual |-> << >>, score |-> RInt(0),
              start_time |-> 0, end_time |-> 0, is_correct |-> FALSE]

\* the loop over word_alignments that fills the four lists
RECURSIVE CategorizeFrom(_, _, _, _, _)
CategorizeFrom(expected_pre, recognized_pre, alignments, k, lists) ==
    IF k > Len(alignments) THEN lists
    ELSE LET alignment == alignments[k]
             original_expected ==
                 MapGet(expected_pre.original_mapping, alignment.expected_word,
                        alignment.expected_word)
             original_actual ==
                 MapGet(recognized_pre.original_mapping, alignment.actual_word,
                        alignment.actual_word)
             entry == WordScoreOf(expected_pre, recognized_pre, alignment)
         IN  CategorizeFrom(expected_pre, recognized_pre, alignments, k + 1,
                 IF IsPair(alignment)
                 THEN [lists EXCEPT
                         !.word_details = Append(@, entry),
                         !.mispronounced_words =
                             IF alignment.is_match THEN @
                             ELSE Append(@, original_expected)]
                 ELSE IF IsDeletion(alignment)
                 THEN [lists EXCEPT
                         !.missing_words = Append(@, original_expected),
                         !.word_details = Append(@, entry)]
                 ELSE IF IsInsertion(alignment)
                 THEN [lists EXCEPT !.extra_words = Append(@, original_actual)]
                 ELSE lists)

Categorize(expected_pre, recognized_pre, alignments) ==
    CategorizeFrom(expected_pre, recognized_pre, alignments, 1,
                   [word_details |-> << >>, mispronounced_words |-> << >>,
                    missing_words |-> << >>, extra_words |-> << >>])

\* the percentage taken as the score
AccuracyScoreUnscaled(word_accuracy) == word_accuracy

\* accuracy_score = word_accuracy / 10
AccuracyScore(word_accuracy) == RDiv(word_accuracy, RInt(10))

\* the plain mean of the three scores
OverallScoreUnweighted(pronunciation_score, fluency_score, accuracy_score) ==
    RDiv(RAdd(RAdd(pronunciation_score, fluency_score), accuracy_score), RInt(3))

OverallScore(pronunciation_score, fluency_score, accuracy_score) ==
    RAdd(RAdd(RMul(pronunciation_score, <<PronunciationWeightTenths, 10>>),
              RMul(fluency_score, <<FluencyWeightTenths, 10>>)),
         RMul(accuracy_score, <<AccuracyWeightTenths, 10>>))

\* the RecitationAnalysis built from the scores; every score is rounded to
\* two decimals and held in hundredths
AnalysesOf(expected_pre, recognized_pre, alignments, asr, fluency_score) ==
    LET total_words   == Len(expected_pre.processed_words)
        correct_words == CorrectWords(alignments)
        word_accuracy == WordAccuracy(correct_words, total_words)
        lists == Categorize(expected_pre, recognized_pre, alignments)
        pronunciation_score == CalculatePronunciationScore(alignments)
        accuracy_score == AccuracyScore(word_accuracy)
        overall_score == OverallScore(pronunciation_score, fluency_score, accuracy_score)
    IN  {[recognized_text |-> asr.text,
          word_count |-> total_words,
          correct_words |-> correct_words,
          word_accuracy |-> wa,
          scores |-> [accuracy_score |-> a, fluency_score |-> f,
                      pronunciation_score |-> p, overall_score |-> o],
          word_details |-> lists.word_details,
          mispronounced_words |-> lists.mispronounced_words,
          missing_words |-> lists.missing_words,
          extra_words |-> lists.extra_words] :
            wa \in Round2(word_accuracy), a \in Round2(accuracy_score),
            f \in Round2(fluency_score), p \in Round2(pronunciation_score),
            o \in Round2(overall_score)}

\* _calculate_analysis_scores: the analysis, or the exception the fluency
\* calculation raised
CalculateAnalysisScores(expected_pre, recognized_pre, alignments, asr) ==
    LET fluency == CalculateFluencyScore(asr)
    IN  IF fluency.raised # "" THEN [raised |-> fluency.raised, analyses |-> {}]
        ELSE [raised |-> "",
              analyses |-> AnalysesOf(expected_pre, recognized_pre, alignments,
                                      asr, fluency.value)]

-----------------------------------------------------------------------------
(* Inputs *)

SeqsUpTo(S, n) == UNION {[1..k -> S] : k \in 0..n}

\* the words joined by single spaces
RECURSIVE JoinWords(_)
JoinWords(ws) ==
    IF ws = << >> THEN << >>
    ELSE IF Len(ws) = 1 THEN ws[1]
    ELSE ws[1] \o <<Space>> \o JoinWords(Tail(ws))

\* surface words of the general family: "a", "Ab", "bx" (similarities
\* a/ab 2/3, ab/bx 1/2, a/bx 0)
GeneralVocab == {<<"a">>, <<"A", "b">>, <<"b", "x">>}

\* the words of the substitution scenario: expected a b c, recognized over
\* a, x, c
ScenarioText == <<"a", Space, "b", Space, "c">>

ScenarioVocab == {<<"a">>, <<"x">>, <<"c">>}

\* the timing family: a word and a punctuation-only word, free time stamps
TimingVocab == {<<"a">>, <<"?">>}

TimingTexts == {<< >>, <<"a">>}

\* time stamps of the timing family, in ticks
Times == {0, 4, 16}

\* evenly paced word timings [dur, gap] in ticks: in the ideal band, of zero
\* length, slow with long pauses, fast, and in the ideal band with pauses
\* of 0.6 s
Paces == {[dur |-> 4, gap |-> 0], [dur |-> 0, gap |-> 0],
          [dur |-> 2, gap |-> 13], [dur |-> 1, gap |-> 0],
          [dur |-> 1, gap |-> 6]}

\* the pauses family: the word "a" repeated, each 0.1 s long, with a gap
\* of 0 s, 1.1 s or 3.1 s before the next one
PauseGaps == {0, 11, 31}

\* the surface family: the reference text, the transcript text and the ASR
\* word list are chosen independently of each other.  Reference texts: two
\* surface forms of one token, a punctuation-only word between two forms of
\* one token, a whitespace-only text, a text in Chinese characters, one word
SurfaceTexts == {<<"A", Space, "a">>,
                 <<"a", "'", Space, "?", Space, "a">>,
                 <<Space, Space>>,
                 <<"zh1", "?", "zh2", "zh1">>,
                 <<"b", "x">>}

SurfaceAsrTexts == {<< >>, <<"a">>, <<"a", ".", Space, "A">>,
                    <<"zh1", "zh2">>}

SurfaceAsrWordLists ==
    {<< >>,
     <<[word |-> <<"A">>, start |-> 4, end |-> 8]>>,
     <<[word |-> <<"a", ".">>, start |-> 0, end |-> 4],
       [word |-> <<"A">>, start |-> 6, end |-> 10]>>,
     <<[word |-> <<"zh1", "zh2">>, start |-> 2, end |-> 6]>>,
     <<[word |-> <<"a">>, start |-> 0, end |-> 3],
       [word |-> <<"a">>, start |-> 6, end |-> 9],
       [word |-> <<"b", "x">>, start |-> 12, end |-> 15]>>}

Families == {"general", "scenario", "timing", "pauses", "surface"}

ReferenceTexts(f) ==
    CASE f = "general"  -> {JoinWords(ws) : ws \in SeqsUpTo(GeneralVocab, MaxExpected)}
      [] f = "scenario" -> {ScenarioText}
      [] f = "timing"   -> TimingTexts
      [] f = "pauses"   -> {<<"a">>}
      [] f = "surface"  -> SurfaceTexts

\* ASRWord list of the surface words ws spoken at an even pace
PacedWords(ws, pace) ==
    [k \in 1..Len(ws) |->
        [word  |-> ws[k],
         start |-> (k - 1) * (pace.dur + pace.gap),
         end   |-> (k - 1) * (pace.dur + pace.gap) + pace.dur]]

\* ASRResponse: the text is the words joined by spaces
AsrResponseOf(words) ==
    [text  |-> JoinWords([k \in 1..Len(words) |-> words[k].word]),
     words |-> words]

\* ASRWord list of the word "a" repeated, with the given gaps between
\* consecutive words
RECURSIVE PauseWordsFrom(_, _, _)
PauseWordsFrom(gaps, start, words) ==
    LET word == [word |-> <<"a">>, start |-> start, end |-> start + 1]
    IN  IF Len(words) = Len(gaps) THEN Append(words, word)
        ELSE PauseWordsFrom(gaps, word.end + gaps[Len(words) + 1],
                            Append(words, word))

PauseWords(gaps) == PauseWordsFrom(gaps, 0, << >>)

AsrWordLists(f) ==
    CASE f = "general"  ->
            {PacedWords(ws, p) : ws \in SeqsUpTo(GeneralVocab, MaxActual), p \in Paces}
      [] f = "scenario" ->
            {PacedWords(ws, p) : ws \in SeqsUpTo(ScenarioVocab, MaxActual), p \in Paces}
      [] f = "timing"   ->
            SeqsUpTo([word : TimingVocab, start : Times, end : Times], MaxTimedWords)
      [] f = "pauses"   ->
            {PauseWords(gaps) : gaps \in SeqsUpTo(PauseGaps, MaxPauseWords - 1)}
      [] f = "surface"  -> SurfaceAsrWordLists

\* the text and the words of a WhisperASRResponse are separate fields: in
\* the surface family they vary independently
AsrResponses(f) ==
    IF f = "surface"
    THEN {[text |-> text, words |-> words] :
             text \in SurfaceAsrTexts, words \in SurfaceAsrWordLists}
    ELSE {AsrResponseOf(words) : words \in AsrWordLists(f)}

-----------------------------------------------------------------------------
(* analyze_recitation, stage by stage *)

NoAsr == [text |-> << >>, words |-> << >>]

NoPreprocessed == [processed_words |-> << >>, original_mapping |-> EmptyMapping]

NoAnalysis == [word_count |-> -1]

NoResponse == [kind |-> "none", status |-> 0, success |-> FALSE, error |-> ""]

\* return RecitationAnalysisResponse(success=True, ...)
SuccessResponse ==
    [kind |-> "response", status |-> 200, success |-> TRUE, error |-> ""]

\* raise HTTPException(status_code=500, detail=...), the detail being the
\* error of the stage
HttpException500(detail) ==
    [kind |-> "HTTPException", status |-> 500, success |-> FALSE, error |-> detail]

\* JSONResponse(status_code=500, content=RecitationAnalysisError(...))
AnalysisErrorResponse ==
    [kind |-> "JSONResponse", status |-> 500, success |-> FALSE,
     error |-> "ANALYSIS_ERROR"]

\* an endpoint that answers every exception itself
EndpointAnswersAll(outcome) ==
    IF outcome.kind = "response" THEN outcome ELSE AnalysisErrorResponse

\* the /analyze endpoint on the outcome of analyze_recitation: the result is
\* returned, an HTTPException raised again, any other exception answered
Endpoint(outcome) ==
    IF outcome.kind \in {"response", "HTTPException"} THEN outcome
    ELSE AnalysisErrorResponse

\* no request in flight, no file in the shared directory, no key check
NoRequests == << >>

NoTempDir == [input |-> 0, mono |-> 0]

NoAuth == [pc |-> "idle"]

\* no backtracking stepped through, no extraction under way
NoBacktrack == [pc |-> "idle"]

NoExtract == [pc |-> "idle"]

Init ==
    /\ requests = NoRequests
    /\ temp_dir = NoTempDir
    /\ auth = NoAuth
    /\ backtrack = NoBacktrack
    /\ extract = NoExtract
    /\ family \in Families
    /\ pc = "start"
    /\ original_text \in ReferenceTexts(family)
    /\ asr_result = NoAsr
    /\ original_preprocessed = NoPreprocessed
    /\ recognized_preprocessed = NoPreprocessed
    /\ word_alignments = << >>
    /\ analysis = NoAnalysis
    /\ response = NoResponse

\* 1. asr_result = await self._call_asr_api(...)
CallAsrApi ==
    /\ pc = "start"
    /\ asr_result' \in AsrResponses(family)
    /\ pc' = "asr_done"
    /\ UNCHANGED <<family, original_text, original_preprocessed,
                   recognized_preprocessed, word_alignments, analysis, response>>
    /\ UNCHANGED <<requests, temp_dir, auth, backtrack, extract>>

\* _call_asr_api raises; analyze_recitation turns it into HTTPException(500)
CallAsrApiFails ==
    /\ pc = "start"
    /\ pc' = "failed"
    /\ response' = Endpoint(HttpException500("ASR"))
    /\ UNCHANGED <<family, original_text, asr_result, original_preprocessed,
                   recognized_preprocessed, word_alignments, analysis>>
    /\ UNCHANGED <<requests, temp_dir, auth, backtrack, extract>>

\* 2. both texts are preprocessed
PreprocessTexts ==
    /\ pc = "asr_done"
    /\ original_preprocessed' = PreprocessText(original_text)
    /\ recognized_preprocessed' = PreprocessText(asr_result.text)
    /\ pc' = "preprocessed"
    /\ UNCHANGED <<family, original_text, asr_result, word_alignments,
                   analysis, response>>
    /\ UNCHANGED <<requests, temp_dir, auth, backtrack, extract>>

\* 3. word_alignments = self._align_words(...)
AlignWordsStage ==
    /\ pc = "preprocessed"
    /\ word_alignments' = AlignWords(original_preprocessed.processed_words,
                                     recognized_preprocessed.processed_words,
                                     asr_result.words)
    /\ pc' = "aligned"
    /\ UNCHANGED <<family, original_text, asr_result, original_preprocessed,
                   recognized_preprocessed, analysis, response>>
    /\ UNCHANGED <<requests, temp_dir, auth, backtrack, extract>>

\* 4. analysis = self._calculate_analysis_scores(...), and the response
CalculateScoresStage ==
    /\ pc = "aligned"
    /\ LET result == CalculateAnalysisScores(original_preprocessed,
                         recognized_preprocessed, word_alignments, asr_result)
       IN  /\ result.raised = ""
           /\ analysis' \in result.analyses
    /\ response' = Endpoint(SuccessResponse)
    /\ pc' = "done"
    /\ UNCHANGED <<family, original_text, asr_result, original_preprocessed,
                   recognized_preprocessed, word_alignments>>
    /\ UNCHANGED <<requests, temp_dir, auth, backtrack, extract>>

\* _calculate_analysis_scores raises; HTTPException(500)
CalculateScoresFails ==
    /\ pc = "aligned"
    /\ LET result == CalculateAnalysisScores(original_preprocessed,
                         recognized_preprocessed, word_alignments, asr_result)
       IN  /\ result.raised # ""
           /\ response' = Endpoint(HttpException500(result.raised))
    /\ pc' = "failed"
    /\ UNCHANGED <<family, original_text, asr_result, original_preprocessed,
                   recognized_preprocessed, word_alignments, analysis>>
    /\ UNCHANGED <<requests, temp_dir, auth, backtrack, extract>>

Next ==
    \/ CallAsrApi
    \/ CallAsrApiFails
    \/ PreprocessTexts
    \/ AlignWordsStage
    \/ CalculateScoresStage
    \/ CalculateScoresFails

Spec == Init /\ [][Next]_vars

-----------------------------------------------------------------------------
(* The /analyze endpoint: concurrent requests, each with its own service *)

\* number of requests in flight
MaxRequests == 2

RequestIds == 1..MaxRequests

\* what request r is to recite, and what its recording says: every recording
\* recites its own reference text, the recording of request r is audio r
RequestWords(r) ==
    IF r = 1 THEN <<<<"a">>>>
    ELSE IF r = 2 THEN <<<<"b", "x">>>>
    ELSE <<<<"a">>, <<"b", "x">>>>

\* the ASRResponse the Whisper API gives for the audio a
AsrOfAudio(a) == AsrResponseOf(PacedWords(RequestWords(a), [dur |-> 4, gap |-> 0]))

\* steps 2 to 4 of analyze_recitation on a reference text and an ASR result
ReportsOf(text, asr) ==
    LET expected_pre == PreprocessText(text)
        recognized_pre == PreprocessText(asr.text)
        alignments == AlignWords(expected_pre.processed_words,
                                 recognized_pre.processed_words, asr.words)
    IN  CalculateAnalysisScores(expected_pre, recognized_pre, alignments, asr)

\* get_analysis_service() builds a service of its own for the request, its
\* session field None; the endpoint has entered `async with analysis_service`
NewRequest(r) ==
    [pc |-> "received",
     original_text |-> JoinWords(RequestWords(r)),
     session |-> "none",          \* analysis_service.session: none or set
     client_session |-> "none",   \* the aiohttp.ClientSession: none, open, closed
     audio_data |-> 0,            \* the audio downloaded, 0 for none
     processed_audio |-> 0,       \* the audio in processed_audio_data
     asr_audio |-> 0,             \* the audio the ASR result is about
     analysis |-> NoAnalysis,
     status |-> 0]

PipelineIdle ==
    /\ family = "none"
    /\ pc = "idle"
    /\ original_text = << >>
    /\ asr_result = NoAsr
    /\ original_preprocessed = NoPreprocessed
    /\ recognized_preprocessed = NoPreprocessed
    /\ word_alignments = << >>
    /\ analysis = NoAnalysis
    /\ response = NoResponse

RequestInit ==
    /\ PipelineIdle
    /\ auth = NoAuth
    /\ backtrack = NoBacktrack
    /\ extract = NoExtract
    /\ temp_dir = NoTempDir
    /\ requests = [r \in RequestIds |-> NewRequest(r)]

\* _call_asr_api: if not self.session: self.session = aiohttp.ClientSession(...)
OpenSession(r) ==
    /\ requests[r].pc = "received"
    /\ requests' = [requests EXCEPT ![r].pc = "session_open",
                                    ![r].session = "set",
                                    ![r].client_session = "open"]
    /\ UNCHANGED <<temp_dir, auth, backtrack, extract, pipeline_vars>>

\* the audio file is downloaded
DownloadAudio(r) ==
    /\ requests[r].pc = "session_open"
    /\ requests' = [requests EXCEPT ![r].pc = "downloaded",
                                    ![r].audio_data = r]
    /\ UNCHANGED <<temp_dir, auth, backtrack, extract, pipeline_vars>>

\* preprocess_audio_for_asr up to its first await: the shared directory is
\* taken as temp_dir and the data written to temp_dir / "input.mp3"
WriteInputFile(r) ==
    /\ requests[r].pc = "downloaded"
    /\ temp_dir' = [temp_dir EXCEPT !.input = requests[r].audio_data]
    /\ requests' = [requests EXCEPT ![r].pc = "converting"]
    /\ UNCHANGED <<auth, backtrack, extract, pipeline_vars>>

\* the ffmpeg subprocess of _convert_to_mono_audio turns the input file, as
\* it is when ffmpeg reads it, into temp_dir / "mono_audio.wav"
FfmpegConverts(r) ==
    /\ requests[r].pc = "converting"
    /\ temp_dir.input # 0
    /\ temp_dir' = [temp_dir EXCEPT !.mono = temp_dir.input]
    /\ requests' = [requests EXCEPT ![r].pc = "converted"]
    /\ UNCHANGED <<auth, backtrack, extract, pipeline_vars>>

\* ffmpeg exits with an error (the input file is gone, or any other reason)
FfmpegFails(r) ==
    /\ requests[r].pc = "converting"
    /\ requests' = [requests EXCEPT ![r].pc = "convert_failed"]
    /\ UNCHANGED <<temp_dir, auth, backtrack, extract, pipeline_vars>>

\* the rest of preprocess_audio_for_asr: the output file is read, or the
\* error raised; _cleanup_temp_files unlinks every file of the directory; on
\* an error _call_asr_api falls back to the downloaded data
FinishPreprocess(r) ==
    /\ requests[r].pc \in {"converted", "convert_failed"}
    /\ requests' = [requests EXCEPT
           ![r].pc = "preprocessed",
           ![r].processed_audio =
               IF requests[r].pc = "converted" /\ temp_dir.mono # 0
               THEN temp_dir.mono
               ELSE requests[r].audio_data]
    /\ temp_dir' = NoTempDir
    /\ UNCHANGED <<auth, backtrack, extract, pipeline_vars>>

\* _upload_processed_audio: a NamedTemporaryFile of its own, then the upload
UploadProcessedAudio(r) ==
    /\ requests[r].pc = "preprocessed"
    /\ requests' = [requests EXCEPT ![r].pc = "uploaded"]
    /\ UNCHANGED <<temp_dir, auth, backtrack, extract, pipeline_vars>>

\* the Whisper API transcribes the uploaded audio
WhisperTranscribes(r) ==
    /\ requests[r].pc = "uploaded"
    /\ requests' = [requests EXCEPT ![r].pc = "transcribed",
                                    ![r].asr_audio = requests[r].processed_audio]
    /\ UNCHANGED <<temp_dir, auth, backtrack, extract, pipeline_vars>>

\* the download, the upload or the ASR call fails: _call_asr_api raises and
\* analyze_recitation raises HTTPException(500)
AsrStepFails(r) ==
    /\ requests[r].pc \in {"session_open", "preprocessed", "uploaded"}
    /\ requests' = [requests EXCEPT ![r].pc = "raising"]
    /\ UNCHANGED <<temp_dir, auth, backtrack, extract, pipeline_vars>>

\* preprocessing, alignment and scoring; the response, or HTTPException(500)
ScoreRecitation(r) ==
    /\ requests[r].pc = "transcribed"
    /\ LET result == ReportsOf(requests[r].original_text,
                               AsrOfAudio(requests[r].asr_audio))
       IN  IF result.raised # ""
           THEN requests' = [requests EXCEPT ![r].pc = "raising"]
           ELSE \E a \in result.analyses :
                    requests' = [requests EXCEPT ![r].pc = "returning",
                                                 ![r].analysis = a]
    /\ UNCHANGED <<temp_dir, auth, backtrack, extract, pipeline_vars>>

\* an exit that leaves the session as it is
AExitLeavesSession(request) == request

\* __aexit__: if self.session: await self.session.close(); self.session = None
AExit(request) ==
    IF request.session # "none"
    THEN [request EXCEPT !.client_session = "closed", !.session = "none"]
    ELSE request

\* the `async with` block of the endpoint is left, by the return or by the
\* HTTPException, which the endpoint raises again
ExitContext(r) ==
    /\ requests[r].pc \in {"returning", "raising"}
    /\ requests' = [requests EXCEPT ![r] =
           [AExit(requests[r]) EXCEPT
               !.pc = "responded",
               !.status = IF requests[r].pc = "returning" THEN 200 ELSE 500]]
    /\ UNCHANGED <<temp_dir, auth, backtrack, extract, pipeline_vars>>

RequestNext ==
    \E r \in RequestIds :
        \/ OpenSession(r)
        \/ DownloadAudio(r)
        \/ WriteInputFile(r)
        \/ FfmpegConverts(r)
        \/ FfmpegFails(r)
        \/ FinishPreprocess(r)
        \/ UploadProcessedAudio(r)
        \/ WhisperTranscribes(r)
        \/ AsrStepFails(r)
        \/ ScoreRecitation(r)
        \/ ExitContext(r)

RequestSpec == RequestInit /\ [][RequestNext]_vars

-----------------------------------------------------------------------------
(* API-key authentication: validate_api_key and require_api_key *)

\* an Optional[str]: None, or a string that may be empty
None == [some |-> FALSE, value |-> ""]

Some(value) == [some |-> TRUE, value |-> value]

\* Python truth value of an Optional[str]
Truthy(optional) == optional.some /\ optional.value # ""

\* validate_api_key(api_key) under the settings
ValidateApiKey(settings, api_key) ==
    IF api_key = "" THEN FALSE
    ELSE IF Truthy(settings.api_key) /\ api_key = settings.api_key.value THEN TRUE
    ELSE IF settings.api_keys # {} /\ api_key \in settings.api_keys THEN TRUE
    ELSE FALSE

ReturnedKey(key) == [status |-> 200, key |-> key]

Unauthorized == [status |-> 401, key |-> ""]

\* a check that tries the Bearer token before the X-API-Key header
RequireApiKeyBearerFirst(settings, header_key, bearer_token) ==
    IF ~settings.enable_api_key_auth THEN ReturnedKey("disabled")
    ELSE IF Truthy(bearer_token) /\ ValidateApiKey(settings, bearer_token.value)
    THEN ReturnedKey(bearer_token.value)
    ELSE IF Truthy(header_key) /\ ValidateApiKey(settings, header_key.value)
    THEN ReturnedKey(header_key.value)
    ELSE Unauthorized

\* require_api_key(header_key, bearer_token); bearer_token stands for
\* bearer_token.credentials, None for no Authorization header
RequireApiKey(settings, header_key, bearer_token) ==
    IF ~settings.enable_api_key_auth THEN ReturnedKey("disabled")
    ELSE IF Truthy(header_key) /\ ValidateApiKey(settings, header_key.value)
    THEN ReturnedKey(header_key.value)
    ELSE IF Truthy(bearer_token) /\ ValidateApiKey(settings, bearer_token.value)
    THEN ReturnedKey(bearer_token.value)
    ELSE Unauthorized

\* keys a client may send: the empty string, two configured ones, a wrong one
Keys == {"", "k1", "k2", "k3"}

\* settings.api_key, settings.api_keys
ConfiguredApiKeys == {None, Some(""), Some("k1")}

ConfiguredApiKeyLists == {{}, {"k2"}, {"k1", "k2"}}

Credentials == {None} \cup {Some(k) : k \in Keys}

AuthInit ==
    /\ PipelineIdle
    /\ requests = NoRequests
    /\ temp_dir = NoTempDir
    /\ backtrack = NoBacktrack
    /\ extract = NoExtract
    /\ \E enabled \in BOOLEAN, api_key \in ConfiguredApiKeys,
          api_keys \in ConfiguredApiKeyLists,
          header_key \in Credentials, bearer_token \in Credentials :
            auth = [pc |-> "called",
                    settings |-> [enable_api_key_auth |-> enabled,
                                  api_key |-> api_key, api_keys |-> api_keys],
                    header_key |-> header_key,
                    bearer_token |-> bearer_token,
                    result |-> Unauthorized]

\* the dependency require_api_key runs for a request
RequireApiKeyCall ==
    /\ auth.pc = "called"
    /\ auth' = [auth EXCEPT
           !.pc = "returned",
           !.result = RequireApiKey(auth.settings, auth.header_key,
                                    auth.bearer_token)]
    /\ UNCHANGED <<requests, temp_dir, backtrack, extract, pipeline_vars>>

AuthNext == RequireApiKeyCall

AuthSpec == AuthInit /\ [][AuthNext]_vars

-----------------------------------------------------------------------------
(* The backtracking of _align_words, one loop iteration per step *)

\* the tokens of the alignments stepped through
BacktrackTokens == {<<"a">>, <<"b", "x">>}

\* the ASR words of the recognized tokens, four ticks each
BacktrackAsrWords(actual_words) ==
    PacedWords(actual_words, [dur |-> 4, gap |-> 0])

\* word_timestamps.get(actual_word, {'start': 0.0, 'end': 0.0})
TimestampsIn(b, actual_word) ==
    MapGet(b.word_timestamps, actual_word, NoTimestamps)

\* _align_words is about to be called
BacktrackInit ==
    /\ PipelineIdle
    /\ requests = NoRequests
    /\ temp_dir = NoTempDir
    /\ auth = NoAuth
    /\ extract = NoExtract
    /\ backtrack = [pc |-> "called"]

\* the call, up to the main loop: alignments = [], the lookup and the table
\* are built, i, j = len(expected_words), len(actual_words)
EnterBacktracking ==
    /\ backtrack.pc = "called"
    /\ \E expected_words \in SeqsUpTo(BacktrackTokens, MaxExpected),
          actual_words \in SeqsUpTo(BacktrackTokens, MaxActual) :
            backtrack' = [pc |-> "running",
                          expected_words |-> expected_words,
                          actual_words |-> actual_words,
                          word_timestamps |->
                              WordTimestamps(BacktrackAsrWords(actual_words)),
                          dp |-> DpTable(expected_words, actual_words),
                          i |-> Len(expected_words),
                          j |-> Len(actual_words),
                          alignments |-> << >>]
    /\ UNCHANGED <<requests, temp_dir, auth, extract, pipeline_vars>>

\* the match branch: a pair is appended, i -= 1, j -= 1
MatchStep(b) ==
    LET expected_word == b.expected_words[b.i]
        actual_word   == b.actual_words[b.j]
    IN  [b EXCEPT !.alignments =
                      Append(@, MatchRecord(expected_word, actual_word,
                                    CalculateWordSimilarity(expected_word, actual_word),
                                    TimestampsIn(b, actual_word))),
                  !.i = @ - 1,
                  !.j = @ - 1]

\* a deletion is appended, i -= 1 (the delete branch and the first flush)
DeleteStep(b) ==
    [b EXCEPT !.alignments = Append(@, DeleteRecord(b.expected_words[b.i])),
              !.i = @ - 1]

\* an insert branch that leaves j as it is
InsertStepStays(b) ==
    [b EXCEPT !.alignments =
                  Append(@, InsertRecord(b.actual_words[b.j],
                                         TimestampsIn(b, b.actual_words[b.j])))]

\* an insertion is appended, j -= 1 (the insert branch and the second flush)
InsertStep(b) ==
    [b EXCEPT !.alignments =
                  Append(@, InsertRecord(b.actual_words[b.j],
                                         TimestampsIn(b, b.actual_words[b.j]))),
              !.j = @ - 1]

\* one iteration of `while i > 0 and j > 0`
MainLoopIteration ==
    /\ backtrack.pc = "running"
    /\ backtrack.i > 0 /\ backtrack.j > 0
    /\ LET step == BacktrackStep(backtrack.expected_words, backtrack.actual_words,
                                 backtrack.dp, backtrack.i, backtrack.j)
       IN  backtrack' = IF step = "match" THEN MatchStep(backtrack)
                        ELSE IF step = "delete" THEN DeleteStep(backtrack)
                        ELSE InsertStep(backtrack)
    /\ UNCHANGED <<requests, temp_dir, auth, extract, pipeline_vars>>

\* one iteration of `while i > 0`, the main loop being over
FlushExpectedIteration ==
    /\ backtrack.pc = "running"
    /\ ~(backtrack.i > 0 /\ backtrack.j > 0)
    /\ backtrack.i > 0
    /\ backtrack' = DeleteStep(backtrack)
    /\ UNCHANGED <<requests, temp_dir, auth, extract, pipeline_vars>>

\* one iteration of `while j > 0`, the first flush being over
FlushActualIteration ==
    /\ backtrack.pc = "running"
    /\ ~(backtrack.i > 0 /\ backtrack.j > 0)
    /\ ~(backtrack.i > 0)
    /\ backtrack.j > 0
    /\ backtrack' = InsertStep(backtrack)
    /\ UNCHANGED <<requests, temp_dir, auth, extract, pipeline_vars>>

\* return list(reversed(alignments)), the three loops being over
ReturnAlignments ==
    /\ backtrack.pc = "running"
    /\ ~(backtrack.i > 0) /\ ~(backtrack.j > 0)
    /\ backtrack' = [backtrack EXCEPT !.pc = "returned",
                                      !.alignments = Reversed(@)]
    /\ UNCHANGED <<requests, temp_dir, auth, extract, pipeline_vars>>

\* the steps of the three loops and the return
BacktrackRuns ==
    \/ MainLoopIteration
    \/ FlushExpectedIteration
    \/ FlushActualIteration
    \/ ReturnAlignments

BacktrackNext ==
    \/ EnterBacktracking
    \/ BacktrackRuns

\* _align_words is synchronous code without an await: once it is entered,
\* each of its loop iterations runs
BacktrackSpec ==
    BacktrackInit /\ [][BacktrackNext]_vars /\ WF_vars(BacktrackRuns)

-----------------------------------------------------------------------------
(* extract_lessons_from_module of the textbook import: the retry loop *)

\* largest max_retries of a call
MaxRetries == 3

\* max_retries = -1 leaves range(max_retries + 1) empty
RetryLimits == -1..MaxRetries

\* the lesson lists a response can carry
LessonLists == {<<"lesson1">>, <<"lesson1", "lesson2">>}

Failures == {"exception", "no_choices", "invalid_json", "no_lessons"}

ExtractInit ==
    /\ PipelineIdle
    /\ requests = NoRequests
    /\ temp_dir = NoTempDir
    /\ auth = NoAuth
    /\ backtrack = NoBacktrack
    /\ \E max_retries \in RetryLimits :
          extract = [pc |-> "for",
                     max_retries |-> max_retries,
                     attempt |-> 0,
                     calls |-> 0,          \* calls of glm4_service.basic_call
                     outcomes |-> << >>,   \* what each attempt met, in order
                     result |-> << >>]

\* for attempt in range(max_retries + 1)
InRetryRange(e) == e.attempt < e.max_retries + 1

\* a success that returns no lessons
ReturnLessonsDropped(e, lessons) == [e EXCEPT !.pc = "returned", !.result = << >>]

\* return lessons
ReturnLessons(e, lessons) == [e EXCEPT !.pc = "returned", !.result = lessons]

\* if attempt < max_retries: continue, else: return []
ContinueOrReturnEmpty(e) ==
    IF e.attempt < e.max_retries
    THEN [e EXCEPT !.attempt = @ + 1]
    ELSE [e EXCEPT !.pc = "returned", !.result = << >>]

\* the attempt has called basic_call and met the outcome
Called(e, outcome) ==
    [e EXCEPT !.calls = @ + 1, !.outcomes = Append(@, outcome)]

\* basic_call raises (HTTPException on a timeout or an API error), or
\* anything else in the try block does
AttemptRaises ==
    /\ extract.pc = "for" /\ InRetryRange(extract)
    /\ extract' = ContinueOrReturnEmpty(
                      Called(extract, [kind |-> "exception", lessons |-> << >>]))
    /\ UNCHANGED <<requests, temp_dir, auth, backtrack, pipeline_vars>>

\* the response has no choices
AttemptNoChoices ==
    /\ extract.pc = "for" /\ InRetryRange(extract)
    /\ extract' = ContinueOrReturnEmpty(
                      Called(extract, [kind |-> "no_choices", lessons |-> << >>]))
    /\ UNCHANGED <<requests, temp_dir, auth, backtrack, pipeline_vars>>

\* json.loads(content) raises JSONDecodeError
AttemptInvalidJson ==
    /\ extract.pc = "for" /\ InRetryRange(extract)
    /\ extract' = ContinueOrReturnEmpty(
                      Called(extract, [kind |-> "invalid_json", lessons |-> << >>]))
    /\ UNCHANGED <<requests, temp_dir, auth, backtrack, pipeline_vars>>

\* the JSON has no 'lessons', or an empty list
AttemptNoLessons ==
    /\ extract.pc = "for" /\ InRetryRange(extract)
    /\ extract' = ContinueOrReturnEmpty(
                      Called(extract, [kind |-> "no_lessons", lessons |-> << >>]))
    /\ UNCHANGED <<requests, temp_dir, auth, backtrack, pipeline_vars>>

\* the JSON carries a non-empty lesson list
AttemptFindsLessons ==
    /\ extract.pc = "for" /\ InRetryRange(extract)
    /\ \E lessons \in LessonLists :
          extract' = ReturnLessons(
                         Called(extract, [kind |-> "lessons", lessons |-> lessons]),
                         lessons)
    /\ UNCHANGED <<requests, temp_dir, auth, backtrack, pipeline_vars>>

\* the range is exhausted: the return [] after the loop
LoopExhausted ==
    /\ extract.pc = "for" /\ ~InRetryRange(extract)
    /\ extract' = [extract EXCEPT !.pc = "returned", !.result = << >>]
    /\ UNCHANGED <<requests, temp_dir, auth, backtrack, pipeline_vars>>

ExtractNext ==
    \/ AttemptRaises
    \/ AttemptNoChoices
    \/ AttemptInvalidJson
    \/ AttemptNoLessons
    \/ AttemptFindsLessons
    \/ LoopExhausted

\* every attempt ends: basic_call answers or raises within glm4_timeout and
\* the sleep before a retry lasts three seconds
ExtractSpec ==
    ExtractInit /\ [][ExtractNext]_vars /\ WF_vars(ExtractNext)

-----------------------------------------------------------------------------
(* Properties *)

ExpectedWords == original_preprocessed.processed_words

ActualWords == recognized_preprocessed.processed_words

\* word_alignments holds the result of _align_words
AlignmentDone == pc \in {"aligned", "done"}

Indices(seq, Test(_)) == {k \in 1..Len(seq) : Test(seq[k])}

PairCount == Cardinality(Indices(word_alignments, IsPair))

DeletionCount == Cardinality(Indices(word_alignments, IsDeletion))

InsertionCount == Cardinality(Indices(word_alignments, IsInsertion))

HasExpected(alignment) == alignment.expected_word # << >>

HasActual(alignment) == alignment.actual_word # << >>

ExpectedSide(alignments) ==
    LET kept == SelectSeq(alignments, HasExpected)
    IN  [k \in 1..Len(kept) |-> kept[k].expected_word]

ActualSide(alignments) ==
    LET kept == SelectSeq(alignments, HasActual)
    IN  [k \in 1..Len(kept) |-> kept[k].actual_word]

\* C1: in the list _align_words returns, pairs + deletions is the number of
\* expected tokens, pairs + insertions is the number of actual tokens, and
\* the list is as long as pairs + deletions + insertions.
C1_AlignmentLengths ==
    AlignmentDone =>
        /\ PairCount + DeletionCount = Len(ExpectedWords)
        /\ PairCount + InsertionCount = Len(ActualWords)
        /\ Len(word_alignments) = PairCount + DeletionCount + InsertionCount

C1_Witness ==
    /\ pc = "aligned"
    /\ PairCount > 0
    /\ DeletionCount > 0
    /\ InsertionCount > 0

\* C2: read in order, the records with an expected word list the expected
\* tokens in their original order, and the records with an actual word list
\* the actual tokens in their original order.
C2_AlignmentKeepsOrder ==
    AlignmentDone =>
        /\ ExpectedSide(word_alignments) = ExpectedWords
        /\ ActualSide(word_alignments) = ActualWords

C2_Witness ==
    /\ pc = "aligned"
    /\ Len(ExpectedWords) = 3
    /\ Len(ActualWords) = 3
    /\ ExpectedWords[1] # ExpectedWords[3]
    /\ ActualWords[1] # ActualWords[3]
    /\ DeletionCount > 0
    /\ InsertionCount > 0

Scores == analysis.scores

InRange(score) == 0 <= score /\ score <= 1000

\* C3: whenever _calculate_analysis_scores returns, the four scores lie in
\* [0, 10] (hundredths 0..1000), under the weights of config.py.
C3_ScoresInRange ==
    pc = "done" =>
        /\ InRange(Scores.accuracy_score)
        /\ InRange(Scores.pronunciation_score)
        /\ InRange(Scores.fluency_score)
        /\ InRange(Scores.overall_score)

\* a fast transcript: the speed score is at its floor and every score differs
C3_Witness ==
    /\ pc = "done"
    /\ Scores.fluency_score < 500
    /\ Scores.accuracy_score > 0
    /\ Scores.accuracy_score < 1000
    /\ Scores.pronunciation_score > Scores.accuracy_score

TotalDuration(words) == words[Len(words)].end - words[1].start

\* 120 <= (n / total_duration) * 60 <= 180
InIdealBand(words) ==
    /\ words # << >>
    /\ TotalDuration(words) > 0
    /\ IdealWpmMin * TotalDuration(words) <= 60 * TicksPerSecond * Len(words)
    /\ 60 * TicksPerSecond * Len(words) <= IdealWpmMax * TotalDuration(words)

EvenlySpaced(words) ==
    \A k \in 1..(Len(words) - 1) :
        /\ words[k + 1].start - words[k].start = words[2].start - words[1].start
        /\ words[k + 1].end - words[k + 1].start = words[1].end - words[1].start

\* the expected and the recognized tokens are the same non-empty sequence,
\* and the word timings are evenly spaced inside the ideal band
PerfectRecitation ==
    /\ pc = "done"
    /\ ExpectedWords # << >>
    /\ ExpectedWords = ActualWords
    /\ InIdealBand(asr_result.words)
    /\ EvenlySpaced(asr_result.words)

AllExactPairs ==
    \A k \in 1..Len(word_alignments) :
        /\ IsPair(word_alignments[k])
        /\ word_alignments[k].similarity = SimScale
        /\ word_alignments[k].is_match

\* pronunciation*w_p + fluency*w_f + accuracy*w_a for pronunciation =
\* accuracy = 10 and the fluency f
WeightedSumOfPerfect(f) ==
    RFrac((PronunciationWeightTenths + AccuracyWeightTenths) * 10 * f[2]
              + FluencyWeightTenths * f[1],
          10 * f[2])

\* C4 as stated: a perfect recitation has only exact pairs, accuracy =
\* pronunciation = 10 and, the weights summing to 1, overall = 10.
C4_PerfectRecitationScoresTen ==
    PerfectRecitation =>
        /\ AllExactPairs
        /\ Scores.accuracy_score = 1000
        /\ Scores.pronunciation_score = 1000
        /\ Scores.overall_score = 1000

\* C4 (amended): a perfect recitation has only exact pairs, accuracy =
\* pronunciation = 10, and overall is the weighted sum 0.2*10 + 0.3*fluency +
\* 0.5*10 rounded to two decimals, which is 10 only if fluency is 10.
C4_PerfectRecitationWeightedSum ==
    PerfectRecitation =>
        /\ AllExactPairs
        /\ Scores.accuracy_score = 1000
        /\ Scores.pronunciation_score = 1000
        /\ Scores.overall_score
              \in Round2(WeightedSumOfPerfect(CalculateFluencyScore(asr_result).value))
        /\ (Scores.overall_score = 1000 <=> Scores.fluency_score = 1000)

\* a perfect recitation that repeats a token: with pauses short enough for
\* pause_score 10 it scores 10 overall, with even pauses of 0.6 s it does not
C4_Witness ==
    /\ PerfectRecitation
    /\ Len(ExpectedWords) = 3
    /\ ExpectedWords[1] = ExpectedWords[2]
    /\ ExpectedWords[2] # ExpectedWords[3]

\* C6: with an empty reference text the analysis completes, without a
\* division by zero, and reports accuracy = 0 and word_count = 0.
C6_EmptyReferenceCompletes ==
    (pc \in {"done", "failed"} /\ response.error # "ASR"
        /\ PreprocessText(original_text).processed_words = << >>) =>
        /\ pc = "done"
        /\ Scores.accuracy_score = 0
        /\ analysis.word_count = 0

Word(c) == <<c>>

\* C7: for expected [a, b, c] and recognized [a, x, c], similarity(b, x) = 0,
\* the alignment is the three pairs (a,a), (b,x), (c,c), two of them
\* is_match, and accuracy is 6.67.
SubstitutionScenario ==
    /\ AlignmentDone
    /\ ExpectedWords = <<Word("a"), Word("b"), Word("c")>>
    /\ ActualWords = <<Word("a"), Word("x"), Word("c")>>

C7_SubstitutionIsOnePair ==
    SubstitutionScenario =>
        /\ CalculateWordSimilarity(Word("b"), Word("x")) = 0
        /\ Len(word_alignments) = 3
        /\ \A k \in 1..3 :
              /\ word_alignments[k].expected_word = ExpectedWords[k]
              /\ word_alignments[k].actual_word = ActualWords[k]
        /\ word_alignments[1].is_match
        /\ ~word_alignments[2].is_match
        /\ word_alignments[3].is_match
        /\ pc = "done" => /\ analysis.correct_words = 2
                          /\ Scores.accuracy_score = 667

C7_Witness == SubstitutionScenario /\ pc = "done"

\* C8 as stated: with no recognized token, fluency is exactly 5.0.
C8_NoTokensFluencyFive ==
    (pc = "done" /\ ActualWords = << >>) => Scores.fluency_score = 500

\* C8 (amended): with an empty ASR word list the scoring never fails and
\* fluency is exactly 5.0, whatever the reference text.
C8_NoAsrWordsFluencyFive ==
    /\ (pc = "done" /\ asr_result.words = << >>) => Scores.fluency_score = 500
    /\ (pc = "failed" /\ asr_result.words = << >>) => response.error = "ASR"

C8_Witness ==
    /\ pc = "done"
    /\ asr_result.words = << >>
    /\ Len(ExpectedWords) = 2

MatchCount == Cardinality(Indices(word_alignments, LAMBDA r : r.is_match))

\* score (in hundredths) is n/d rounded to two decimals
IsRounded(score, n, d) == 2 * Abs(score * d - 100 * n) <= d

\* C9: accuracy is (is_match records / expected tokens) * 10, and 0 without
\* expected tokens; the is_match records are never more than the expected
\* tokens.
C9_AccuracyFormula ==
    pc = "done" =>
        /\ MatchCount <= Len(ExpectedWords)
        /\ analysis.correct_words = MatchCount
        /\ IF Len(ExpectedWords) > 0
           THEN IsRounded(Scores.accuracy_score, 10 * MatchCount, Len(ExpectedWords))
           ELSE Scores.accuracy_score = 0

C9_Witness ==
    /\ pc = "done"
    /\ Len(ExpectedWords) = 3
    /\ MatchCount = 2
    /\ PairCount = 3

PairSimilaritySum ==
    LET pairs == SelectSeq(word_alignments, IsPair)
    IN  SumSeq([k \in 1..Len(pairs) |-> pairs[k].similarity])

\* C10: pronunciation is min(10, 10 * mean similarity of the pairs);
\* deletions and insertions do not enter the mean; without pairs it is 0.
C10_PronunciationFormula ==
    AlignmentDone =>
        LET p == CalculatePronunciationScore(word_alignments)
        IN  /\ IF PairCount = 0 THEN p = RInt(0)
               ELSE /\ p[1] * PairCount * SimScale = 10 * PairSimilaritySum * p[2]
                    /\ RLe(p, RInt(10))
            /\ pc = "done" =>
                  IF PairCount = 0 THEN Scores.pronunciation_score = 0
                  ELSE IsRounded(Scores.pronunciation_score,
                                 10 * PairSimilaritySum, PairCount * SimScale)

C10_Witness ==
    /\ pc = "done"
    /\ DeletionCount > 0
    /\ InsertionCount > 0
    /\ \E k \in 1..Len(word_alignments) :
          /\ IsPair(word_alignments[k])
          /\ 0 < word_alignments[k].similarity
          /\ word_alignments[k].similarity < SimScale

\* the speed score the formula gives n words lasting d ticks (d # 0), as a
\* fraction <<numerator, denominator>> with a positive denominator: WPM is
\* 600 n / d
ExpectedSpeed(n, d) ==
    LET a == Abs(d)
        wpm_times_a == IF d > 0 THEN 60 * TicksPerSecond * n
                       ELSE -(60 * TicksPerSecond * n)
        \* the distance of WPM to the nearest bound, times a
        distance == IF wpm_times_a < IdealWpmMin * a
                    THEN IdealWpmMin * a - wpm_times_a
                    ELSE wpm_times_a - IdealWpmMax * a
    IN  IF IdealWpmMin * a <= wpm_times_a /\ wpm_times_a <= IdealWpmMax * a
        THEN <<10, 1>>
        ELSE IF 200 * a - distance > 20 * a
             THEN <<200 * a - distance, 20 * a>>
             ELSE <<1, 1>>

\* C11: for a non-empty ASR word list fluency is min(10, 0.7*speed_score +
\* 0.3*pause_score), with WPM = (words / (last end - first start)) * 60,
\* speed_score 10 inside [120, 180] and max(10 - distance/20, 1) outside,
\* distance being that of WPM to the nearer bound.
C11_FluencyFormula ==
    (pc = "done" /\ asr_result.words # << >>) =>
        LET speed == ExpectedSpeed(Len(asr_result.words),
                                   TotalDuration(asr_result.words))
            pause == CalculatePauseScore(asr_result.words)
            n == 7 * speed[1] * pause[2] + 3 * pause[1] * speed[2]
            d == 10 * speed[2] * pause[2]
        IN  IsRounded(Scores.fluency_score, IF n > 10 * d THEN 10 * d ELSE n, d)

\* spoken too fast, but not so fast that the speed score is at its floor
C11_Witness ==
    /\ pc = "done"
    /\ Len(asr_result.words) = 2
    /\ TotalDuration(asr_result.words) > 0
    /\ 60 * TicksPerSecond * 2 > IdealWpmMax * TotalDuration(asr_result.words)
    /\ ExpectedSpeed(2, TotalDuration(asr_result.words)) # <<1, 1>>
    /\ Scores.fluency_score < 1000

Gaps(words) == [k \in 1..(Len(words) - 1) |-> words[k + 1].start - words[k].end]

LongPauses(words) ==
    Cardinality({k \in 1..(Len(words) - 1) : Gaps(words)[k] > TicksPerSecond})

\* the banded rule, in tenths of a point: the average gap is below x seconds
\* iff the sum of the gaps is below x * TicksPerSecond * (number of gaps)
ExpectedPauseTenths(words) ==
    LET gaps == Len(words) - 1
        total == SumSeq(Gaps(words))
        long == LongPauses(words)
    IN  IF Len(words) < 2 THEN 80
        ELSE IF 2 * total < TicksPerSecond * gaps /\ long = 0 THEN 100
        ELSE IF total < TicksPerSecond * gaps /\ long <= 2 THEN 80
        ELSE IF total < 2 * TicksPerSecond * gaps /\ long <= 5 THEN 60
        ELSE IF 40 - 5 * long > 10 THEN 40 - 5 * long
        ELSE 10

\* C12: pause_score is 8 for fewer than two words, else the first band that
\* applies: 10 (average gap < 0.5 s, no gap over 1 s), 8 (average < 1.0 s, at
\* most 2 long gaps), 6 (average < 2.0 s, at most 5 long gaps), else
\* max(4 - 0.5 * long gaps, 1).
C12_PauseBands ==
    pc \notin {"start", "failed"} =>
        CalculatePauseScore(asr_result.words)
            = RFrac(ExpectedPauseTenths(asr_result.words), 10)

\* three words with gaps of 0.3 s: average gap 0.3 s, no long pause, score 10
C12_Witness ==
    /\ pc = "done"
    /\ Len(asr_result.words) = 3
    /\ Gaps(asr_result.words) = <<3, 3>>
    /\ CalculatePauseScore(asr_result.words) = RInt(10)

\* C13: every alignment record is a pair, a deletion or an insertion and
\* never has both words empty; a pair is is_match iff its similarity is at
\* least min_word_similarity; a deletion or an insertion has is_match false
\* and similarity 0.
C13_RecordKinds ==
    AlignmentDone =>
        \A k \in 1..Len(word_alignments) :
            LET r == word_alignments[k]
            IN  /\ HasExpected(r) \/ HasActual(r)
                /\ (HasExpected(r) /\ HasActual(r)) =>
                      (r.is_match <=>
                          100 * r.similarity >= MinWordSimilarityPct * SimScale)
                /\ ~(HasExpected(r) /\ HasActual(r)) =>
                      (~r.is_match /\ r.similarity = 0)

\* a matching pair of similarity 2/3, a pair of similarity 1/2 that does not
\* match, and an unpaired word
C13_Witness ==
    /\ AlignmentDone
    /\ \E k \in 1..Len(word_alignments) :
          /\ word_alignments[k].is_match
          /\ word_alignments[k].similarity < SimScale
    /\ \E k \in 1..Len(word_alignments) :
          /\ ~word_alignments[k].is_match
          /\ word_alignments[k].similarity > 0
    /\ \E k \in 1..Len(word_alignments) :
          ~(HasExpected(word_alignments[k]) /\ HasActual(word_alignments[k]))

\* the indices of the alignment records that satisfy Test, in order
Picked(Test(_)) ==
    SelectSeq([k \in 1..Len(word_alignments) |-> k],
              LAMBDA k : Test(word_alignments[k]))

MismatchedPair(r) == HasExpected(r) /\ HasActual(r) /\ ~r.is_match

OnlyExpected(r) == HasExpected(r) /\ ~HasActual(r)

OnlyActual(r) == ~HasExpected(r) /\ HasActual(r)

ProcessWords(ws) == [k \in 1..Len(ws) |-> ProcessWord(ws[k])]

\* C14: mispronounced_words holds the expected words of the pairs that are
\* not is_match, missing_words those of the deletions, extra_words the actual
\* words of the insertions, each in alignment order (compared here by their
\* normalized forms); a pair that is is_match is in none of the lists.
C14_Categorization ==
    pc = "done" =>
        /\ ProcessWords(analysis.mispronounced_words)
              = [k \in 1..Len(Picked(MismatchedPair)) |->
                    word_alignments[Picked(MismatchedPair)[k]].expected_word]
        /\ ProcessWords(analysis.missing_words)
              = [k \in 1..Len(Picked(OnlyExpected)) |->
                    word_alignments[Picked(OnlyExpected)[k]].expected_word]
        /\ ProcessWords(analysis.extra_words)
              = [k \in 1..Len(Picked(OnlyActual)) |->
                    word_alignments[Picked(OnlyActual)[k]].actual_word]
        /\ Len(analysis.mispronounced_words) + Len(analysis.missing_words)
              + Len(analysis.extra_words) + MatchCount = Len(word_alignments)

\* a mispronounced, a missing and an extra word next to a matched one
C14_Witness ==
    /\ pc = "done"
    /\ analysis.mispronounced_words # << >>
    /\ analysis.missing_words # << >>
    /\ analysis.extra_words # << >>
    /\ MatchCount > 0

\* a word the normalization keeps
KeepsToken(w) == \E k \in 1..Len(w) : w[k] \notin PunctChars

\* the surface words of a text that yield a token, in text order
SurfaceWords(text) == SelectSeq(OriginalWords(text), KeepsToken)

\* how many of the first k alignment records satisfy Test
CountUpTo(k, Test(_)) == Cardinality({j \in 1..k : Test(word_alignments[j])})

\* C15: every reported word is the surface form of the token at its position
\* in its text: word_details follows the surface words of the reference, the
\* actual word of a pair and the extra words follow those of the transcript,
\* also when two surface forms share a normalized form.
C15_SurfaceFormsReported ==
    pc = "done" =>
        LET expected == SurfaceWords(original_text)
            actual == SurfaceWords(asr_result.text)
            ExpectedAt(k) == expected[CountUpTo(k, HasExpected)]
            ActualAt(k) == actual[CountUpTo(k, HasActual)]
        IN  /\ \A k \in 1..Len(word_alignments) :
                  LET r == word_alignments[k]
                      detail == analysis.word_details[CountUpTo(k, HasExpected)]
                  IN  /\ HasExpected(r) =>
                            detail.word = ExpectedAt(k) /\ detail.expected = ExpectedAt(k)
                      /\ (HasExpected(r) /\ HasActual(r)) => detail.actual = ActualAt(k)
            /\ analysis.mispronounced_words
                  = [k \in 1..Len(Picked(MismatchedPair)) |->
                        ExpectedAt(Picked(MismatchedPair)[k])]
            /\ analysis.missing_words
                  = [k \in 1..Len(Picked(OnlyExpected)) |->
                        ExpectedAt(Picked(OnlyExpected)[k])]
            /\ analysis.extra_words
                  = [k \in 1..Len(Picked(OnlyActual)) |->
                        ActualAt(Picked(OnlyActual)[k])]

\* both texts have been preprocessed
Preprocessed == pc \in {"preprocessed", "aligned", "done"}

TokensOf(text) ==
    [k \in 1..Len(SurfaceWords(text)) |->
        LowerWord(SelectSeq(SurfaceWords(text)[k], LAMBDA c : c \notin PunctChars))]

\* C16: _preprocess_text returns no empty token: the words whose normalized
\* form is empty are dropped, the others keep their order, and a text without
\* a non-blank character gives the empty list.
C16_NoEmptyToken ==
    Preprocessed =>
        /\ \A k \in 1..Len(ExpectedWords) : ExpectedWords[k] # << >>
        /\ \A k \in 1..Len(ActualWords) : ActualWords[k] # << >>
        /\ ExpectedWords = TokensOf(original_text)
        /\ ActualWords = TokensOf(asr_result.text)
        /\ (\A k \in 1..Len(original_text) : original_text[k] = Space)
              => ExpectedWords = << >>
        /\ (\A k \in 1..Len(asr_result.text) : asr_result.text[k] = Space)
              => ActualWords = << >>

\* a punctuation-only word dropped from between two words that stay
C16_Witness ==
    /\ Preprocessed
    /\ Len(OriginalWords(original_text)) = 3
    /\ ~KeepsToken(OriginalWords(original_text)[2])
    /\ Len(ExpectedWords) = 2

\* no ASR word cleans to the token
Untimed(token) ==
    \A j \in 1..Len(asr_result.words) :
        StripPunct(LowerWord(asr_result.words[j].word)) # token

\* C17: a recognized token without an entry in the timestamp lookup has
\* start_time = end_time = 0.0 in its record, a pair or an insertion, and the
\* alignment completes.
C17_MissingTimestampIsZero ==
    AlignmentDone =>
        \A k \in 1..Len(word_alignments) :
            LET r == word_alignments[k]
            IN  (HasActual(r) /\ Untimed(r.actual_word)) =>
                    (r.start_time = 0 /\ r.end_time = 0)

\* a pair and an insertion without time stamps, next to an ASR word list that
\* is not empty
C17_Witness ==
    /\ AlignmentDone
    /\ asr_result.words # << >>
    /\ \E k \in 1..Len(word_alignments) :
          /\ HasExpected(word_alignments[k])
          /\ HasActual(word_alignments[k])
          /\ Untimed(word_alignments[k].actual_word)
    /\ \E k \in 1..Len(word_alignments) :
          /\ OnlyActual(word_alignments[k])
          /\ Untimed(word_alignments[k].actual_word)

Responded(r) == requests[r].pc = "responded"

\* C18: when a request has ended, by its result or by an HTTPException, the
\* session _call_asr_api opened is closed and the session field is None.
C18_SessionClosedAtEnd ==
    \A r \in DOMAIN requests :
        Responded(r) =>
            /\ requests[r].session = "none"
            /\ requests[r].client_session # "open"

\* one request ended with its result, another with the HTTPException, both
\* after their session had been opened
C18_Witness ==
    \E r, q \in DOMAIN requests :
        /\ Responded(r) /\ requests[r].status = 200
        /\ requests[r].client_session = "closed"
        /\ Responded(q) /\ requests[q].status = 500
        /\ requests[q].client_session = "closed"

\* the reports request r gets when it runs alone: its recording transcribed
AloneReports(r) ==
    ReportsOf(requests[r].original_text, AsrOfAudio(r)).analyses

\* C19: under any interleaving with other requests, the report of a request
\* is the report it produces when run alone.
C19_ReportAsWhenRunAlone ==
    \A r \in DOMAIN requests :
        (Responded(r) /\ requests[r].status = 200) =>
            requests[r].analysis \in AloneReports(r)

\* k is a configured valid key: non-empty, and settings.api_key or a member
\* of settings.api_keys
ConfiguredKey(k) ==
    /\ k # ""
    /\ \/ (auth.settings.api_key.some /\ k = auth.settings.api_key.value)
       \/ k \in auth.settings.api_keys

Supplies(credential) == credential.some /\ ConfiguredKey(credential.value)

\* C20: with authentication enabled require_api_key returns the X-API-Key
\* value if it is a configured key, else the Bearer token if that is one, and
\* raises 401 in every other case; a key it returns is a configured key that
\* was supplied.  With authentication disabled it returns "disabled".
C20_RequireApiKey ==
    auth.pc = "returned" =>
        IF ~auth.settings.enable_api_key_auth
        THEN auth.result = [status |-> 200, key |-> "disabled"]
        ELSE /\ Supplies(auth.header_key) =>
                    auth.result = [status |-> 200, key |-> auth.header_key.value]
             /\ (~Supplies(auth.header_key) /\ Supplies(auth.bearer_token)) =>
                    auth.result = [status |-> 200, key |-> auth.bearer_token.value]
             /\ (~Supplies(auth.header_key) /\ ~Supplies(auth.bearer_token)) =>
                    auth.result.status = 401
             /\ auth.result.status = 200 =>
                    /\ ConfiguredKey(auth.result.key)
                    /\ \/ auth.header_key = Some(auth.result.key)
                       \/ auth.bearer_token = Some(auth.result.key)

\* both credentials are configured keys and differ: the header wins
C20_Witness ==
    /\ auth.pc = "returned"
    /\ auth.settings.enable_api_key_auth
    /\ Supplies(auth.header_key)
    /\ Supplies(auth.bearer_token)
    /\ auth.header_key # auth.bearer_token
    /\ auth.result.key = auth.header_key.value

\* _align_words has just returned: every alignment of a run is met here
JustAligned == pc = "aligned"

\* the score table of the alignment
Dp == DpTable(ExpectedWords, ActualWords)

\* the backtracking stepped through has built its table
Entered == backtrack.pc \in {"running", "returned"}

\* similarity(expected[i-1], actual[j-1]) of the backtracking stepped through
SimilarityAt(i, j) ==
    CalculateWordSimilarity(backtrack.expected_words[i], backtrack.actual_words[j])

\* C21: the score table has dp[0][j] = dp[i][0] = 0 for all i and j, and
\* for 1 <= i <= N, 1 <= j <= M the cell dp[i][j] is the largest of
\* dp[i-1][j-1] + similarity, dp[i-1][j] - 0.5 and dp[i][j-1] - 0.5.
C21_DpRecurrence ==
    Entered =>
        LET N  == Len(backtrack.expected_words)
            M  == Len(backtrack.actual_words)
            dp == backtrack.dp
        IN  /\ Len(dp) = N + 1
            /\ \A i \in 0..N : Len(dp[i + 1]) = M + 1
            /\ \A j \in 0..M : DpAt(dp, 0, j) = 0
            /\ \A i \in 0..N : DpAt(dp, i, 0) = 0
            /\ \A i \in 1..N : \A j \in 1..M :
                 LET match_score    == DpAt(dp, i - 1, j - 1) + SimilarityAt(i, j)
                     delete_twice   == 2 * DpAt(dp, i - 1, j) - SimScale
                     insert_twice   == 2 * DpAt(dp, i, j - 1) - SimScale
                     candidates     == {2 * match_score, delete_twice, insert_twice}
                 IN  /\ 2 * DpAt(dp, i, j) \in candidates
                     /\ \A c \in candidates : c <= 2 * DpAt(dp, i, j)

\* a table of at least two rows and two columns in which each of the three
\* branches is the only one to reach the maximum at some cell
C21_Witness ==
    /\ Entered
    /\ Len(backtrack.expected_words) >= 2 /\ Len(backtrack.actual_words) >= 2
    /\ LET dp == backtrack.dp
           N  == Len(backtrack.expected_words)
           M  == Len(backtrack.actual_words)
       IN  /\ \E i \in 1..N : \E j \in 1..M :
                /\ DpAt(dp, i, j) = DpAt(dp, i - 1, j - 1) + SimilarityAt(i, j)
                /\ 2 * DpAt(dp, i, j) > 2 * DpAt(dp, i - 1, j) - SimScale
                /\ 2 * DpAt(dp, i, j) > 2 * DpAt(dp, i, j - 1) - SimScale
           /\ \E i \in 1..N : \E j \in 1..M :
                /\ 2 * DpAt(dp, i, j) = 2 * DpAt(dp, i - 1, j) - SimScale
                /\ DpAt(dp, i, j) > DpAt(dp, i - 1, j - 1) + SimilarityAt(i, j)
                /\ DpAt(dp, i, j) > DpAt(dp, i, j - 1)
           /\ \E i \in 1..N : \E j \in 1..M :
                /\ 2 * DpAt(dp, i, j) = 2 * DpAt(dp, i, j - 1) - SimScale
                /\ DpAt(dp, i, j) > DpAt(dp, i - 1, j - 1) + SimilarityAt(i, j)
                /\ DpAt(dp, i, j) > DpAt(dp, i - 1, j)

\* the branches whose recurrence value equals dp[i][j] within 1e-6
MatchTies(dp, i, j) ==
    WithinTolerance(DpAt(dp, i, j), DpAt(dp, i - 1, j - 1) + SimilarityAt(i, j))

DeleteTies(dp, i, j) ==
    WithinTolerance(DpAt(dp, i, j), DpAt(dp, i - 1, j) - SimScale \div 2)

InsertTies(dp, i, j) ==
    WithinTolerance(DpAt(dp, i, j), DpAt(dp, i, j - 1) - SimScale \div 2)

\* the step that leads from cell (i, j) to the cell of after
StepFrom(i, j, after) ==
    IF after.i = i - 1 /\ after.j = j - 1 THEN "match"
    ELSE IF after.i = i - 1 /\ after.j = j THEN "delete"
    ELSE IF after.i = i /\ after.j = j - 1 THEN "insert"
    ELSE "none"

KindOf(alignment) ==
    IF IsPair(alignment) THEN "match"
    ELSE IF IsDeletion(alignment) THEN "delete" ELSE "insert"

\* C22: at every cell (i, j) with i > 0 and j > 0 the backtracking takes the
\* first step, in the order match, delete, insert, whose recurrence value
\* equals dp[i][j] within 1e-6, and the step it takes attains dp[i][j].
C22_BacktrackOrder ==
    [][(backtrack.pc = "running" /\ backtrack.i > 0 /\ backtrack.j > 0) =>
          LET i    == backtrack.i
              j    == backtrack.j
              dp   == backtrack.dp
              step == StepFrom(i, j, backtrack')
          IN  /\ step # "none"
              /\ step = KindOf(backtrack'.alignments[Len(backtrack'.alignments)])
              /\ (step = "match") <=> MatchTies(dp, i, j)
              /\ (step = "delete") <=>
                     (~MatchTies(dp, i, j) /\ DeleteTies(dp, i, j))
              /\ (step = "insert") <=>
                     (~MatchTies(dp, i, j) /\ ~DeleteTies(dp, i, j))
              /\ (step = "insert") => InsertTies(dp, i, j)
      ]_vars

\* the cell the backtracking in progress stood at when it emitted its k-th
\* record
StoodAt(k) ==
    [i |-> Len(backtrack.expected_words)
             - Cardinality({h \in 1..(k - 1) : HasExpected(backtrack.alignments[h])}),
     j |-> Len(backtrack.actual_words)
             - Cardinality({h \in 1..(k - 1) : HasActual(backtrack.alignments[h])})]

\* the backtracking has taken a match step at a cell where the delete branch
\* ties too and a delete step at a cell where the insert branch ties too
C22_Witness ==
    /\ backtrack.pc = "running"
    /\ \E k \in 1..Len(backtrack.alignments) :
          /\ StoodAt(k).i > 0 /\ StoodAt(k).j > 0
          /\ IsPair(backtrack.alignments[k])
          /\ DeleteTies(backtrack.dp, StoodAt(k).i, StoodAt(k).j)
    /\ \E k \in 1..Len(backtrack.alignments) :
          /\ StoodAt(k).i > 0 /\ StoodAt(k).j > 0
          /\ IsDeletion(backtrack.alignments[k])
          /\ InsertTies(backtrack.dp, StoodAt(k).i, StoodAt(k).j)

\* the state in which the main loop of the backtracking stops
MainLoopExit ==
    BacktrackMain(ExpectedWords, ActualWords, WordTimestamps(asr_result.words),
                  Dp, Len(ExpectedWords), Len(ActualWords), << >>)

\* C23: when the main loop stops with i > 0 or j > 0, the rest of the
\* expected words expected[0..i-1] is emitted as deletions or the rest of the
\* actual words actual[0..j-1] as insertions, never both; in the returned list
\* these records come first, before the records of the main loop, and the
\* list has between max(N, M) and N + M records.
C23_FlushedPrefix ==
    JustAligned =>
        LET main == MainLoopExit
            i == main.i
            j == main.j
            N == Len(ExpectedWords)
            M == Len(ActualWords)
        IN  /\ i >= 0 /\ j >= 0 /\ ~(i > 0 /\ j > 0)
            /\ Len(word_alignments) = i + j + Len(main.alignments)
            /\ \A k \in 1..i :
                 /\ IsDeletion(word_alignments[k])
                 /\ word_alignments[k].expected_word = ExpectedWords[k]
            /\ \A k \in 1..j :
                 /\ IsInsertion(word_alignments[k])
                 /\ word_alignments[k].actual_word = ActualWords[k]
            /\ \A k \in 1..Len(main.alignments) :
                 word_alignments[i + j + k]
                     = main.alignments[Len(main.alignments) + 1 - k]
            /\ Max2(N, M) <= Len(word_alignments)
            /\ Len(word_alignments) <= N + M

\* the main loop emitted a record and stopped with two expected words left
C23_Witness ==
    /\ JustAligned
    /\ LET main == MainLoopExit
       IN  main.i >= 2 /\ main.alignments # << >>
    /\ IsDeletion(word_alignments[1]) /\ IsDeletion(word_alignments[2])
    /\ ~IsDeletion(word_alignments[3])

\* the normalized forms of the ASR words
CleanWords ==
    [h \in 1..Len(asr_result.words) |->
        StripPunct(LowerWord(asr_result.words[h].word))]

\* the positions in clean_words that hold token
OccurrencesOf(clean_words, token) ==
    {h \in 1..Len(clean_words) : clean_words[h] = token}

LastOf(positions) == CHOOSE h \in positions : \A g \in positions : g <= h

\* C24: the timestamp lookup is keyed by the normalized word and the last
\* write wins: a record whose actual token has a form that occurs among the
\* ASR words carries the start and end of the last ASR word of that form,
\* wherever the token stands in the transcript.
C24_LastWriteWins ==
    JustAligned =>
        LET clean_words == CleanWords
        IN  \A k \in 1..Len(word_alignments) :
                LET occurrences ==
                        OccurrencesOf(clean_words, word_alignments[k].actual_word)
                IN  (HasActual(word_alignments[k]) /\ occurrences # {}) =>
                        /\ word_alignments[k].start_time
                             = asr_result.words[LastOf(occurrences)].start
                        /\ word_alignments[k].end_time
                             = asr_result.words[LastOf(occurrences)].end

\* two records carry the same token, two ASR words of that form have
\* different times, and both records carry the times of the later one
C24_Witness ==
    /\ JustAligned
    /\ \E k, l \in 1..Len(word_alignments) :
          /\ k < l
          /\ HasActual(word_alignments[k])
          /\ word_alignments[k].actual_word = word_alignments[l].actual_word
          /\ LET occurrences ==
                      OccurrencesOf(CleanWords, word_alignments[k].actual_word)
             IN  \E g, h \in occurrences :
                    /\ g < h
                    /\ h = LastOf(occurrences)
                    /\ asr_result.words[g].start # asr_result.words[h].start
                    /\ word_alignments[k].start_time = asr_result.words[h].start
                    /\ word_alignments[l].start_time = asr_result.words[h].start

\* the stages of analyze_recitation that have run when pc has the value
StageRank(p) ==
    CASE p = "start" -> 0
      [] p = "asr_done" -> 1
      [] p = "preprocessed" -> 2
      [] p = "aligned" -> 3
      [] p = "done" -> 4

Running == {"start", "asr_done", "preprocessed", "aligned"}

\* C25: analyze_recitation runs the ASR call, the preprocessing of both
\* texts, the alignment and the score calculation in this order; a stage that
\* fails gives an HTTPException with status 500 that carries the stage's
\* error and never a response with success = True, and the endpoint raises
\* that HTTPException unchanged.
C25_StagesAndFailure ==
    [][/\ pc \in Running
       /\ pc' # "failed" =>
            /\ StageRank(pc') = StageRank(pc) + 1
            /\ pc' = "asr_done" =>
                 /\ pc = "start"
                 /\ original_preprocessed' = NoPreprocessed
                 /\ recognized_preprocessed' = NoPreprocessed
                 /\ word_alignments' = << >>
            /\ pc' = "preprocessed" =>
                 /\ asr_result' = asr_result
                 /\ original_preprocessed'.processed_words
                      = TokensOf(original_text)
                 /\ recognized_preprocessed'.processed_words
                      = TokensOf(asr_result.text)
            /\ pc' = "aligned" =>
                 /\ <<original_preprocessed', recognized_preprocessed'>>
                      = <<original_preprocessed, recognized_preprocessed>>
                 /\ ExpectedSide(word_alignments') = ExpectedWords
                 /\ ActualSide(word_alignments') = ActualWords
            /\ pc' = "done" =>
                 /\ word_alignments' = word_alignments
                 /\ analysis' # NoAnalysis
                 /\ response'.kind = "response" /\ response'.success
            /\ pc' # "done" => analysis' = NoAnalysis /\ response' = NoResponse
       /\ pc' = "failed" =>
            /\ response'.kind = "HTTPException"
            /\ response'.status = 500
            /\ ~response'.success
            /\ response'.error \in {"ASR", "ZeroDivisionError"}
            /\ analysis' = NoAnalysis
      ]_vars

\* a request whose ASR call, preprocessing and alignment have run and whose
\* score calculation failed: the answer is the HTTPException of status 500
C25_Witness ==
    /\ pc = "failed"
    /\ word_alignments # << >>
    /\ response = HttpException500("ZeroDivisionError")

\* the entries of word_details that report a recognized word
PairEntries ==
    {k \in 1..Len(analysis.word_details) : analysis.word_details[k].actual # << >>}

\* C28: word_details has exactly one entry per expected token, in reference
\* order: a pair and a deletion contribute one entry each and an insertion
\* none, so len(word_details) = number of expected tokens = word_count and
\* len(missing_words) + number of pair entries = word_count.
C28_OneEntryPerExpectedToken ==
    pc = "done" =>
        /\ Len(analysis.word_details) = Len(ExpectedWords)
        /\ analysis.word_count = Len(ExpectedWords)
        /\ \A k \in 1..Len(analysis.word_details) :
             /\ ProcessWord(analysis.word_details[k].word) = ExpectedWords[k]
             /\ analysis.word_details[k].expected = analysis.word_details[k].word
        /\ Cardinality(PairEntries) = PairCount
        /\ Len(analysis.missing_words) = DeletionCount
        /\ Len(analysis.missing_words) + Cardinality(PairEntries)
             = analysis.word_count

\* an analysis over a pair, a deletion and an insertion
C28_Witness ==
    /\ pc = "done"
    /\ PairCount >= 1 /\ DeletionCount >= 1 /\ InsertionCount >= 1
    /\ analysis.word_count = PairCount + DeletionCount
    /\ Len(analysis.word_details) < Len(word_alignments)

\* C29: for every non-empty list of recognized words, whatever their
\* timestamps, _calculate_fluency_score returns a score and raises no
\* arithmetic error.
C29_FluencyReturnsScore ==
    (pc \in {"aligned", "done", "failed"} /\ asr_result.words # << >>) =>
        /\ CalculateFluencyScore(asr_result).raised = ""
        /\ pc = "failed" => response.error # "ZeroDivisionError"

\* C30: two media-processing calls running at the same time do not interfere
\* through the temporary directory: a file a call has written and not yet
\* read is neither overwritten by another call's write nor deleted by another
\* call's cleanup.
C30_TempFilesKept ==
    \A r \in DOMAIN requests :
        /\ requests[r].pc = "converting" =>
               temp_dir.input = requests[r].audio_data
        /\ requests[r].pc = "converted" =>
               temp_dir.mono = requests[r].audio_data

\* C27: the backtracking of _align_words terminates: every iteration of the
\* main loop and of the two flush loops strictly decreases i + j and emits
\* one record, so at most N + M records are emitted, and i and j are both 0
\* when the function returns.
C27_BacktrackTerminates ==
    /\ [][backtrack.pc = "running" =>
          /\ backtrack'.pc = "running" =>
               /\ backtrack'.i + backtrack'.j < backtrack.i + backtrack.j
               /\ backtrack'.i >= 0 /\ backtrack'.j >= 0
               /\ Len(backtrack'.alignments) = Len(backtrack.alignments) + 1
               /\ Len(backtrack'.alignments)
                    <= Len(backtrack.expected_words) + Len(backtrack.actual_words)
          /\ backtrack'.pc = "returned" =>
               /\ backtrack.i = 0 /\ backtrack.j = 0
               /\ backtrack'.i = 0 /\ backtrack'.j = 0
               /\ Len(backtrack'.alignments)
                    <= Len(backtrack.expected_words) + Len(backtrack.actual_words)
         ]_vars
    /\ (backtrack.pc = "running") ~> (backtrack.pc = "returned")

\* a backtracking over three expected and three actual words has returned
\* after main-loop iterations and a flush, with fewer than N + M records
C27_Witness ==
    /\ backtrack.pc = "returned"
    /\ Len(backtrack.expected_words) = 3 /\ Len(backtrack.actual_words) = 3
    /\ IsDeletion(backtrack.alignments[1])
    /\ \E k \in 1..Len(backtrack.alignments) : IsPair(backtrack.alignments[k])
    /\ \E k \in 1..Len(backtrack.alignments) : IsInsertion(backtrack.alignments[k])
    /\ Len(backtrack.alignments) < 6

\* the attempts that met a non-empty lesson list
Successes(outcomes) == {k \in 1..Len(outcomes) : outcomes[k].kind = "lessons"}

\* C26: extract_lessons_from_module calls the GLM-4 service at most
\* max_retries + 1 times, stops at the first attempt that yields a non-empty
\* lesson list and returns its lessons, returns an empty list once every
\* attempt has failed (exception, no choices, invalid JSON, no lessons),
\* never raises, and always terminates.
C26_RetryLoop ==
    /\ [](extract.pc \in {"for", "returned"})
    /\ [](/\ extract.calls <= Max2(extract.max_retries + 1, 0)
          /\ extract.calls = Len(extract.outcomes)
          /\ extract.pc = "for" => Successes(extract.outcomes) = {}
          /\ extract.pc = "returned" =>
               IF Successes(extract.outcomes) # {}
               THEN /\ Successes(extract.outcomes) = {Len(extract.outcomes)}
                    /\ extract.result
                         = extract.outcomes[Len(extract.outcomes)].lessons
                    /\ extract.result # << >>
               ELSE /\ extract.result = << >>
                    /\ extract.calls = Max2(extract.max_retries + 1, 0)
                    /\ \A k \in 1..Len(extract.outcomes) :
                         extract.outcomes[k].kind \in Failures)
    /\ <>(extract.pc = "returned")

\* with max_retries = 3 four attempts failed, each in another way, and the
\* empty list was returned
C26_Witness ==
    /\ extract.pc = "returned"
    /\ extract.max_retries = 3
    /\ extract.calls = 4
    /\ {extract.outcomes[k].kind : k \in 1..4} = Failures
    /\ extract.result = << >>

====
